---- MODULE Spec2Model ----
(***************************************************************************)
(* Model of the mixed HTTP + SOCKS5 short-link proxy (src/main.go).        *)
(*                                                                         *)
(* Three parts of the program are modelled:                                *)
(*   - the connection dispatcher: the accept loop, handleConnection with   *)
(*     its 1-byte peek, handleSocks5Handshake read by read and write by    *)
(*     write, and the submit select;                                       *)
(*   - ChannelListener: Accept, Close (closeMu, the closed channel) and    *)
(*     the unbuffered conns channel, with Go's select semantics: a select  *)
(*     takes a case that can proceed when it is entered, otherwise the     *)
(*     goroutine parks on all its channels and is resumed by the first     *)
(*     operation that makes one of its cases proceed;                      *)
(*   - the mapping table: loadMappingsFromFile building a fresh map and    *)
(*     swapping it in under mapMutex, and handleRequest's lookup.          *)
(***************************************************************************)
EXTENDS Integers, Sequences, FiniteSets, TLC

\* ------------------------------------------------------------------ bounds
NConns == 2          \* connections the clients open
NReaders == 2        \* requests that look hosts up concurrently
MaxLoads == 3        \* runs of loadMappingsFromFile: the initial load and the reloads
NClosers == 2        \* concurrent callers of ChannelListener.Close
MaxChunk == 2        \* most bytes one socket read hands to bufio's buffer
MaxRequests == 2     \* requests handled in a run

Conns == 1..NConns
Closers == 1..NClosers
Readers == 1..NReaders

\* ------------------------------------------------------------ byte helpers
Min(a, b) == IF a < b THEN a ELSE b

Drop(s, k) == SubSeq(s, k + 1, Len(s))

Take(s, k) == SubSeq(s, 1, k)

Prefixes(s) == { Take(s, k) : k \in 0..Len(s) }

\* The SOCKS5 version identifier handleConnection compares the peeked byte with.
Socks5Version == 5

\* conn.Write([]byte{0x05, 0x00})
ChoiceBytes == <<5, 0>>

\* response := []byte{0x05, 0x00, 0x00, 0x01, 0x00, 0x00, 0x00, 0x00, 0x00, 0x00}
ReplyBytes == <<5, 0, 0, 1, 0, 0, 0, 0, 0, 0>>

\* ------------------------------------------------------- client byte streams
\* What one client sends on its connection, in full.  A well-formed SOCKS5
\* exchange is greeting, request, then the payload the HTTP server is to read.
GreetingOf(methods) == <<5, Len(methods)>> \o methods

RequestOf(cmd, atyp, addr) == <<5, cmd, 0, atyp>> \o addr \o <<0, 80>>

MethodLists == { <<>>, <<0>>, <<2, 1>> }

IPv4Addr == <<127, 0, 0, 1>>

IPv6Addr == <<0, 0, 0, 0, 0, 0, 0, 0, 0, 0, 0, 0, 0, 0, 0, 1>>

DomainAddrs == { <<0>>, <<2, 105, 100>> }

\* (address type, address field) of the well-formed CONNECT requests
GoodAddrs == { <<1, IPv4Addr>>, <<4, IPv6Addr>> } \cup { <<3, d>> : d \in DomainAddrs }

Payloads == { <<>>, <<71, 69>> }

WellFormedStreams ==
    { GreetingOf(m) \o RequestOf(1, a[1], a[2]) \o p :
        m \in MethodLists, a \in GoodAddrs, p \in Payloads }

\* requests the handshake refuses: BIND, UDP ASSOCIATE, an unknown address type
RefusedStreams ==
    { GreetingOf(<<0>>) \o RequestOf(2, 1, IPv4Addr) \o <<71>>,
      GreetingOf(<<0>>) \o RequestOf(3, 3, <<0>>) \o <<71>>,
      GreetingOf(<<0>>) \o RequestOf(1, 2, IPv4Addr) \o <<71>>,
      GreetingOf(<<0>>) \o RequestOf(1, 0, <<>>) \o <<71>> }

\* streams that do not start with 0x05: HTTP text, a SOCKS4-style greeting
PlainStreams == { <<71>>, <<71, 69, 84>>, <<4, 1, 0>>, <<4, 1, 0, 80, 71>>, <<0, 5>> }

\* truncations of the longest exchanges, and greetings that promise more
\* methods than are sent
TruncatedStreams ==
    Prefixes(GreetingOf(<<2, 1>>) \o RequestOf(1, 3, <<2, 105, 100>>) \o <<71>>)
    \cup Prefixes(GreetingOf(<<0>>) \o RequestOf(1, 4, IPv6Addr))
    \cup Prefixes(GreetingOf(<<0>>) \o RequestOf(1, 1, IPv4Addr))
    \cup { <<5, 3, 0>> }

Streams == WellFormedStreams \cup RefusedStreams \cup PlainStreams \cup TruncatedStreams

\* the few streams used when several connections run against the listener
SmallStreams ==
    { <<>>, <<71, 69>>, GreetingOf(<<>>) \o RequestOf(1, 3, <<0>>) \o <<71>> }

\* What a client does after its last byte: keeps the connection open and
\* silent, half-closes it (reads end with EOF), or resets it (reads end with
\* an error and writes to it can fail).
ClientEnds == { "open", "eof", "reset" }

\* ------------------------------------------------------------------- state
VARIABLES
    stream,       \* [Conns -> Seq(byte)]: what the client sends
    clientEnd,    \* [Conns -> ClientEnds]
    sock,         \* bytes of the stream the server has not read from the socket
    rbuf,         \* PeekConn.r: bytes read from the socket, not yet consumed
    buf,          \* handleSocks5Handshake's buf: the bytes of its last read
    out,          \* bytes the server wrote to the client
    pc,           \* position of the connection's handleConnection task
    hsErr,        \* what handleSocks5Handshake returned: "none" (not yet), "nil", or the error
    connClosed,   \* conn.Close() was called by the dispatcher task
    served,       \* the connections ChannelListener.Accept returned, in order
    httpGot,      \* bytes the HTTP server read from the connection
    lateSubmit,   \* history: l.closed was already closed when the task entered its select
    lclosed,      \* l.closed is closed
    closeCount,   \* executions of close(l.closed); a second one panics
    closeMu,      \* holder of l.closeMu, 0 when free
    closerPc,     \* position of each Close call
    srvPc,        \* position of http.Server.Serve's Accept loop
    loopPc,       \* position of the accept loop on the real listener
    realOpen,     \* the real TCP listener is open
    mainPc,       \* position of Start
    exit          \* how the process ended: "running", "clean", "error", "fatal"

connVars == <<stream, clientEnd, sock, rbuf, buf, out, pc, hsErr, connClosed, httpGot,
              lateSubmit>>

lstVars == <<lclosed, closeCount, closeMu, closerPc>>

lifeVars == <<loopPc, realOpen, mainPc, exit>>

\* The mapping table and the handlers that read it.
VARIABLES
    doc,          \* the config document on disk
    heap,         \* the map objects: [id -> [key -> target URL]]
    shortLinkMap, \* ps.shortLinkMap: the id of the live map object
    lastSyncTime, \* ps.lastSyncTime
    clock,        \* time.Now(), counted in loads started
    mapWriter,    \* ps.mapMutex is write-locked
    mapReaders,   \* the requests that hold ps.mapMutex read-locked
    loadPc,       \* position of each caller's loadMappingsFromFile
    newMap,       \* each call's newMap: the id of the map it fills
    apiResp,      \* each call's apiResp.Data
    idx,          \* the record each call's range loop is at
    loadErr,      \* what the last loadMappingsFromFile returned
    phase,        \* "loading" (initial load), "serving", "aborted" (log.Fatalf)
    rPc,          \* position of each request's handleRequest
    rHost,        \* each request's requestedHost
    rSeen,        \* each request's (targetURL, found)
    requestCount, \* ps.requestCount
    countMu,      \* the request that holds ps.countMutex locked, 0 when free
    handled,      \* history: executions of ps.requestCount++
    rReq,         \* each request: path, query, Host header
    rResp,        \* each request's response
    rLoc,         \* each request's locals in the counter and in handleCheck
    reloadChan,   \* SIGUSR1 signals waiting in reloadChan
    liveDoc       \* history: the document the live table was loaded from

reqVars == <<requestCount, countMu, handled, rReq, rResp, rLoc>>

tableVars == <<doc, heap, shortLinkMap, lastSyncTime, clock, mapWriter, mapReaders,
               loadPc, newMap, apiResp, idx, loadErr, phase, rPc, rHost, rSeen, reqVars,
               reloadChan, liveDoc>>

vars == <<connVars, served, srvPc, lstVars, lifeVars, tableVars>>

\* ------------------------------------------------------------ PeekConn reads
\* What a read through PeekConn can still deliver: bufio's buffer first, then
\* the socket.
Avail(c) == rbuf[c] \o sock[c]

\* io.ReadFull(conn, buf[:k]) returns k bytes once the client has sent them.
ReadOK(c, k) == Len(Avail(c)) >= k

\* io.ReadFull fails when the stream ends (EOF, reset) before k bytes came;
\* with the client silent and still connected it blocks.
ReadErr(c, k) == Len(Avail(c)) < k /\ clientEnd[c] # "open"

\* PeekConn.Read via io.ReadFull: k bytes leave the buffer, then the socket.
DoRead(c, k) ==
    LET fromBuf == Min(k, Len(rbuf[c])) IN
    /\ buf' = [buf EXCEPT ![c] = Take(Avail(c), k)]
    /\ rbuf' = [rbuf EXCEPT ![c] = Drop(rbuf[c], fromBuf)]
    /\ sock' = [sock EXCEPT ![c] = Drop(sock[c], k - fromBuf)]

\* A failed io.ReadFull has consumed whatever was there.
FailRead(c) ==
    /\ buf' = [buf EXCEPT ![c] = Avail(c)]
    /\ rbuf' = [rbuf EXCEPT ![c] = <<>>]
    /\ sock' = [sock EXCEPT ![c] = <<>>]

\* conn.Write can fail only on a connection the client has reset.
WriteCanFail(c) == clientEnd[c] = "reset"

\* ------------------------------------------------------- handleConnection
\* A dispatcher that hands every SOCKS version byte (4 or 5) to the handshake.
ClassifyAnySocks(head) == IF head \in { 4, 5 } THEN "greeting" ELSE "submit"

\* if head[0] == 0x05 { handleSocks5Handshake } else straight to the select
Classify(head) == IF head = Socks5Version THEN "greeting" ELSE "submit"

\* A peek error that falls through to the submit select.
PeekErrPcForward == "submit"

\* Peek error: conn.Close(); return
PeekErrPc == "closing"

\* A handshake error that is logged and falls through to the submit select.
HandshakeErrPcForward == "submit"

\* handleSocks5Handshake returned an error: log, conn.Close(), return
HandshakeErrPc == "closing"

\* handleSocks5Handshake returns the error e
HsFail(c, e) ==
    /\ hsErr' = [hsErr EXCEPT ![c] = e]
    /\ pc' = [pc EXCEPT ![c] = HandshakeErrPc]

\* A peek of two bytes.
PeekLenTwo == 1 + 1

\* conn.Peek(1): the number of bytes peeked
PeekLen == 1

\* A peek that consumes the byte it returns (a Read in place of the Peek).
AfterPeekConsuming(chunk) == Drop(chunk, 1)

\* PeekConn.Peek: bufio's Peek returns the head of the buffer and leaves
\* every byte it read from the socket in the buffer.
AfterPeek(chunk) == chunk

\* head, err := conn.Peek(1): bufio reads the socket until PeekLen bytes are
\* buffered; the read hands over what has arrived, PeekLen bytes or more.
Peek(c) ==
    /\ pc[c] = "peek"
    /\ \/ /\ Len(sock[c]) >= PeekLen
          /\ \E k \in PeekLen..Min(Len(sock[c]), MaxChunk) :
                /\ rbuf' = [rbuf EXCEPT ![c] = AfterPeek(Take(sock[c], k))]
                /\ sock' = [sock EXCEPT ![c] = Drop(sock[c], k)]
                /\ pc' = [pc EXCEPT ![c] = Classify(sock[c][1])]
       \/ /\ Len(sock[c]) < PeekLen
          /\ clientEnd[c] # "open"
          /\ pc' = [pc EXCEPT ![c] = PeekErrPc]
          /\ UNCHANGED <<rbuf, sock>>
    /\ UNCHANGED <<stream, clientEnd, buf, out, hsErr, connClosed, httpGot,
                   lateSubmit, served, srvPc, lstVars, lifeVars, tableVars>>

\* conn.Close(); return  (after a peek error or a failed handshake)
CloseFailed(c) ==
    /\ pc[c] = "closing"
    /\ connClosed' = [connClosed EXCEPT ![c] = TRUE]
    /\ pc' = [pc EXCEPT ![c] = "done"]
    /\ UNCHANGED <<stream, clientEnd, sock, rbuf, buf, out, hsErr, httpGot,
                   lateSubmit, served, srvPc, lstVars, lifeVars, tableVars>>

\* ---------------------------------------------------- handleSocks5Handshake
hsRest == <<stream, clientEnd, connClosed, httpGot, lateSubmit, served, srvPc, lstVars,
           lifeVars, tableVars>>

\* A handshake that answers the greeting header at once, before it reads
\* the methods.
GreetingNextChoiceFirst == "choice"

\* after the greeting header: nMethods := int(buf[1]) and the read of the methods
GreetingNext == "methods"

\* io.ReadFull(conn, buf[:2]); if buf[0] != 5 { unsupported version }
ReadGreeting(c) ==
    /\ pc[c] = "greeting"
    /\ \/ /\ ReadOK(c, 2)
          /\ DoRead(c, 2)
          /\ IF Avail(c)[1] # 5
                THEN HsFail(c, "unsupported version")
                ELSE pc' = [pc EXCEPT ![c] = GreetingNext] /\ UNCHANGED hsErr
       \/ /\ ReadErr(c, 2)
          /\ FailRead(c)
          /\ HsFail(c, "read greeting header")
    /\ UNCHANGED <<out, hsRest>>

\* nMethods := int(buf[1]); io.ReadFull(conn, buf[:nMethods])
ReadMethods(c) ==
    /\ pc[c] = "methods"
    /\ LET nMethods == buf[c][2] IN
       \/ /\ ReadOK(c, nMethods)
          /\ DoRead(c, nMethods)
          /\ pc' = [pc EXCEPT ![c] = "choice"]
          /\ UNCHANGED hsErr
       \/ /\ ReadErr(c, nMethods)
          /\ FailRead(c)
          /\ HsFail(c, "read methods")
    /\ UNCHANGED <<out, hsRest>>

\* A server that selects 0x00 only when the client offered it and answers
\* 0xFF (no acceptable method) otherwise.
ChoiceForOffered(methods) ==
    IF \E i \in DOMAIN methods : methods[i] = 0 THEN ChoiceBytes ELSE <<5, 255>>

\* the method selection written for the methods just read into buf: No
\* Authentication, whatever they are
ChoiceFor(methods) == ChoiceBytes

\* conn.Write([]byte{0x05, 0x00})
WriteChoice(c) ==
    /\ pc[c] = "choice"
    /\ \/ /\ out' = [out EXCEPT ![c] = out[c] \o ChoiceFor(buf[c])]
          /\ pc' = [pc EXCEPT ![c] = "request"]
          /\ UNCHANGED hsErr
       \/ /\ WriteCanFail(c)
          /\ HsFail(c, "write choice")
          /\ UNCHANGED out
    /\ UNCHANGED <<sock, rbuf, buf, hsRest>>

\* switch atyp: the step that reads the address
AddrStep(atyp) ==
    CASE atyp = 1 -> "ipv4"
      [] atyp = 3 -> "domainLen"
      [] atyp = 4 -> "ipv6"
      [] OTHER -> "unsupported"

\* A handshake that takes every command (BIND and UDP ASSOCIATE too).
CommandAny(cmd) == TRUE

\* if cmd != 1 { unsupported command }
CommandOK(cmd) == cmd = 1

\* A handshake that answers a refused request with a SOCKS5 failure reply:
\* 0x07 (command not supported) or 0x08 (address type not supported).
RefusalReplySocks(e) ==
    CASE e = "unsupported command" -> <<5, 7, 0, 1, 0, 0, 0, 0, 0, 0>>
      [] e = "unsupported address type" -> <<5, 8, 0, 1, 0, 0, 0, 0, 0, 0>>
      [] OTHER -> <<>>

\* what is written before the request step returns error e: the returns
\* for cmd != 1, for the default address type and for a short header write
\* nothing
RefusalReply(e) == <<>>

\* io.ReadFull(conn, buf[:4]); cmd := buf[1]; atyp := buf[3]; switch atyp
ReadRequest(c) ==
    /\ pc[c] = "request"
    /\ \/ /\ ReadOK(c, 4)
          /\ DoRead(c, 4)
          /\ LET cmd == Avail(c)[2]
                 atyp == Avail(c)[4]
             IN  IF ~CommandOK(cmd)
                    THEN HsFail(c, "unsupported command")
                 ELSE IF AddrStep(atyp) = "unsupported"
                    THEN HsFail(c, "unsupported address type")
                 ELSE pc' = [pc EXCEPT ![c] = AddrStep(atyp)] /\ UNCHANGED hsErr
       \/ /\ ReadErr(c, 4)
          /\ FailRead(c)
          /\ HsFail(c, "read request header")
    /\ out' = [out EXCEPT ![c] = out[c] \o RefusalReply(hsErr'[c])]
    /\ UNCHANGED hsRest

\* One io.ReadFull of the address or port part: k bytes at step `at`, then
\* on to step `next`; its error is returned unwrapped.
ReadPart(c, at, k, next) ==
    /\ pc[c] = at
    /\ \/ /\ ReadOK(c, k)
          /\ DoRead(c, k)
          /\ pc' = [pc EXCEPT ![c] = next]
          /\ UNCHANGED hsErr
       \/ /\ ReadErr(c, k)
          /\ FailRead(c)
          /\ HsFail(c, "read error")
    /\ UNCHANGED <<out, hsRest>>

\* case 1: io.ReadFull(conn, buf[:4])
ReadIPv4(c) == ReadPart(c, "ipv4", 4, "port")

\* case 3: io.ReadFull(conn, buf[:1])
ReadDomainLen(c) == ReadPart(c, "domainLen", 1, "domain")

\* addrLen := int(buf[0]); io.ReadFull(conn, buf[:addrLen])
ReadDomain(c) == ReadPart(c, "domain", IF pc[c] = "domain" THEN buf[c][1] ELSE 0, "port")

\* case 4: io.ReadFull(conn, buf[:16])
ReadIPv6(c) == ReadPart(c, "ipv6", 16, "port")

\* The port read as one byte.
ReadPortOneByte(c) == ReadPart(c, "port", 1, "reply")

\* io.ReadFull(conn, buf[:2])  (the port)
ReadPort(c) == ReadPart(c, "port", 2, "reply")

\* conn.Write(response); return nil
WriteReply(c) ==
    /\ pc[c] = "reply"
    /\ \/ /\ out' = [out EXCEPT ![c] = out[c] \o ReplyBytes]
          /\ hsErr' = [hsErr EXCEPT ![c] = "nil"]
          /\ pc' = [pc EXCEPT ![c] = "submit"]
       \/ /\ WriteCanFail(c)
          /\ HsFail(c, "write reply")
          /\ UNCHANGED out
    /\ UNCHANGED <<sock, rbuf, buf, hsRest>>

Handshake(c) ==
    \/ ReadGreeting(c)
    \/ ReadMethods(c)
    \/ WriteChoice(c)
    \/ ReadRequest(c)
    \/ ReadIPv4(c)
    \/ ReadDomainLen(c)
    \/ ReadDomain(c)
    \/ ReadIPv6(c)
    \/ ReadPort(c)
    \/ WriteReply(c)

\* --------------------------------------------------------- ChannelListener
\* A plain receive, c := <-l.conns, in place of Accept's select.
AcceptCasesPlainReceive == { "conns" }

\* The cases of Accept's select: case c := <-l.conns, case <-l.closed
AcceptCases == { "conns", "closed" }

\* A plain send, httpListener.conns <- conn, in place of the submit select.
SubmitCasesPlainSend == { "conns" }

\* The cases of handleConnection's select: case httpListener.conns <- conn,
\* case <-httpListener.closed
SubmitCases == { "conns", "closed" }

\* Submitters parked in their select, offering a connection on l.conns.
ParkedSenders == { c \in Conns : pc[c] = "parked" }

\* A dispatcher that closes the connection when it returns, sent or not
\* (defer conn.Close()).
ClosedOnSendDeferred == TRUE

\* case httpListener.conns <- conn: the case body is empty and
\* handleConnection returns, the connection is left open
ClosedOnSend == FALSE

\* select { case httpListener.conns <- conn: ; case <-httpListener.closed: conn.Close() }
\* entered: a case that can proceed is taken (any of them when both can),
\* otherwise the task parks on both channels.
Submit(c) ==
    /\ pc[c] = "submit"
    /\ LET canSend == "conns" \in SubmitCases /\ srvPc = "parked"
           canClose == "closed" \in SubmitCases /\ lclosed
       IN  \/ /\ canSend
              /\ served' = Append(served, c)
              /\ srvPc' = "accept"
              /\ pc' = [pc EXCEPT ![c] = "done"]
              /\ connClosed' = [connClosed EXCEPT ![c] = ClosedOnSend]
           \/ /\ canClose
              /\ connClosed' = [connClosed EXCEPT ![c] = TRUE]
              /\ pc' = [pc EXCEPT ![c] = "done"]
              /\ UNCHANGED <<served, srvPc>>
           \/ /\ ~canSend /\ ~canClose
              /\ pc' = [pc EXCEPT ![c] = "parked"]
              /\ UNCHANGED <<served, srvPc, connClosed>>
    /\ lateSubmit' = [lateSubmit EXCEPT ![c] = lclosed]
    /\ UNCHANGED <<stream, clientEnd, sock, rbuf, buf, out, hsErr, httpGot,
                   lstVars, lifeVars, tableVars>>

\* A parked submitter resumed by close(l.closed): case <-httpListener.closed: conn.Close()
SubmitWoken(c) ==
    /\ pc[c] = "woken"
    /\ connClosed' = [connClosed EXCEPT ![c] = TRUE]
    /\ pc' = [pc EXCEPT ![c] = "done"]
    /\ UNCHANGED <<stream, clientEnd, sock, rbuf, buf, out, hsErr, httpGot,
                   lateSubmit, served, srvPc, lstVars, lifeVars, tableVars>>

\* ChannelListener.Accept, called by http.Server.Serve's loop: the select is
\* entered.  A received connection is returned (c, nil) and Serve calls
\* Accept again; the closed case returns (nil, net.ErrClosed) and Serve returns.
Accept ==
    /\ srvPc = "accept"
    /\ LET canRecv == IF "conns" \in AcceptCases THEN ParkedSenders ELSE {}
           canClose == "closed" \in AcceptCases /\ lclosed
       IN  \/ \E c \in canRecv :
                /\ served' = Append(served, c)
                /\ pc' = [pc EXCEPT ![c] = "done"]
                /\ connClosed' = [connClosed EXCEPT ![c] = ClosedOnSend]
                /\ UNCHANGED srvPc
           \/ /\ canClose
              /\ srvPc' = "returned"
              /\ UNCHANGED <<served, pc, connClosed>>
           \/ /\ canRecv = {} /\ ~canClose
              /\ srvPc' = "parked"
              /\ UNCHANGED <<served, pc, connClosed>>
    /\ UNCHANGED <<stream, clientEnd, sock, rbuf, buf, out, hsErr,
                   httpGot, lateSubmit, lstVars, lifeVars, tableVars>>

\* An Accept parked in its select and resumed by close(l.closed):
\* case <-l.closed: return nil, net.ErrClosed
AcceptWoken ==
    /\ srvPc = "woken"
    /\ srvPc' = "returned"
    /\ UNCHANGED <<connVars, served, lstVars, lifeVars, tableVars>>

\* The HTTP server reads from a connection Accept gave it: PeekConn.Read is
\* bufio's Read, the buffered bytes first, then one read of the socket.
HttpRead(c) ==
    /\ \E i \in 1..Len(served) : served[i] = c
    /\ \/ /\ rbuf[c] # <<>>
          /\ httpGot' = [httpGot EXCEPT ![c] = httpGot[c] \o rbuf[c]]
          /\ rbuf' = [rbuf EXCEPT ![c] = <<>>]
          /\ UNCHANGED sock
       \/ /\ rbuf[c] = <<>>
          /\ sock[c] # <<>>
          /\ \E k \in 1..Min(Len(sock[c]), MaxChunk) :
                /\ httpGot' = [httpGot EXCEPT ![c] = httpGot[c] \o Take(sock[c], k)]
                /\ sock' = [sock EXCEPT ![c] = Drop(sock[c], k)]
          /\ UNCHANGED rbuf
    /\ UNCHANGED <<stream, clientEnd, buf, out, pc, hsErr, connClosed,
                   lateSubmit, served, srvPc, lstVars, lifeVars, tableVars>>

\* Close without closeMu: the lock never excludes another caller.
CloseMuFreeNoMutex == TRUE

\* l.closeMu.Lock() succeeds when the mutex is free
CloseMuFree == closeMu = 0

\* select { case <-l.closed: (already closed) ... default: ... }
CloseSeesClosed == lclosed

\* l.closeMu.Lock(); defer l.closeMu.Unlock()
\* Close is called once the shutdown has closed the real listener.
\* server.Shutdown called before listener.Close()
ShutdownCalledOnSignal == mainPc \in { "signalled", "shutdown" }

\* server.Shutdown(shutdownCtx) runs once listener.Close() has returned; it
\* closes the listener Serve was given
ShutdownCalled == mainPc = "shutdown"

CloseLock(k) ==
    /\ closerPc[k] = "idle"
    /\ ShutdownCalled
    /\ CloseMuFree
    /\ closeMu' = k
    /\ closerPc' = [closerPc EXCEPT ![k] = "select"]
    /\ UNCHANGED <<connVars, served, srvPc, lclosed, closeCount, lifeVars, tableVars>>

\* select { case <-l.closed: return nil; default: close(l.closed) }
CloseSelect(k) ==
    /\ closerPc[k] = "select"
    /\ closerPc' = [closerPc EXCEPT ![k] = IF CloseSeesClosed THEN "unlock" ELSE "close"]
    /\ UNCHANGED <<connVars, served, srvPc, lclosed, closeCount, closeMu, lifeVars, tableVars>>

\* close(l.closed): every goroutine parked in a select with a <-l.closed
\* case is resumed with that case.  Closing a closed channel panics.
CloseChan(k) ==
    /\ closerPc[k] = "close"
    /\ closeCount' = closeCount + 1
    /\ IF lclosed
          THEN /\ closerPc' = [closerPc EXCEPT ![k] = "panic"]
               /\ UNCHANGED <<lclosed, pc, srvPc>>
          ELSE /\ lclosed' = TRUE
               /\ closerPc' = [closerPc EXCEPT ![k] = "unlock"]
               /\ pc' = [c \in Conns |->
                           IF pc[c] = "parked" /\ "closed" \in SubmitCases
                              THEN "woken" ELSE pc[c]]
               /\ srvPc' = IF srvPc = "parked" /\ "closed" \in AcceptCases
                              THEN "woken" ELSE srvPc
    /\ UNCHANGED <<stream, clientEnd, sock, rbuf, buf, out, hsErr, connClosed,
                   httpGot, lateSubmit, served, closeMu, lifeVars, tableVars>>

\* the deferred l.closeMu.Unlock(); return nil
CloseUnlock(k) ==
    /\ closerPc[k] = "unlock"
    /\ closeMu' = IF closeMu = k THEN 0 ELSE closeMu
    /\ closerPc' = [closerPc EXCEPT ![k] = "returned"]
    /\ UNCHANGED <<connVars, served, srvPc, lclosed, closeCount, lifeVars, tableVars>>

Close(k) == CloseLock(k) \/ CloseSelect(k) \/ CloseChan(k) \/ CloseUnlock(k)

\* ------------------------------------------------------------------ Start
\* An accept loop that calls ps.handleConnection(conn, httpListener) itself
\* and accepts again when it returned.
LoopFreeInline == \A c \in Conns : pc[c] \in { "idle", "done" }

\* go ps.handleConnection(conn, httpListener): the loop is back at
\* listener.Accept() at once, whatever the tasks it started are doing
LoopFree == TRUE

\* conn, err := listener.Accept(); go ps.handleConnection(conn, httpListener)
AcceptConn(c) ==
    /\ loopPc = "accept"
    /\ LoopFree
    /\ realOpen
    /\ pc[c] = "idle"
    /\ pc' = [pc EXCEPT ![c] = "peek"]
    /\ UNCHANGED <<stream, clientEnd, sock, rbuf, buf, out, hsErr, connClosed,
                   httpGot, lateSubmit, served, srvPc, lstVars, lifeVars, tableVars>>

\* An accept loop without the select on httpListener.closed: every error
\* is logged and the loop continues.
LoopSeesClosedNever == FALSE

\* select { case <-httpListener.closed: return; default: }
LoopSeesClosed == lclosed

\* listener.Accept() returns an error, as it always does on the closed real
\* listener and as it can at any time (a transient failure):
\* select { case <-httpListener.closed: return; default: log.Printf(...) }
AcceptError ==
    /\ loopPc = "accept"
    /\ loopPc' = IF LoopSeesClosed THEN "exited" ELSE "logged"
    /\ UNCHANGED <<connVars, served, srvPc, lstVars, realOpen, mainPc, exit, tableVars>>

\* continue: the error was logged, the loop calls listener.Accept() again
AcceptRetry ==
    /\ loopPc = "logged"
    /\ loopPc' = "accept"
    /\ UNCHANGED <<connVars, served, srvPc, lstVars, realOpen, mainPc, exit, tableVars>>

\* sig := <-shutdownChan
Signal ==
    /\ mainPc = "serving"
    /\ mainPc' = "signalled"
    /\ UNCHANGED <<connVars, served, srvPc, lstVars, loopPc, realOpen, exit, tableVars>>

\* listener.Close(), then server.Shutdown(shutdownCtx)
ListenerClose ==
    /\ mainPc = "signalled"
    /\ realOpen' = FALSE
    /\ mainPc' = "shutdown"
    /\ UNCHANGED <<connVars, served, srvPc, lstVars, loopPc, exit, tableVars>>

\* ------------------------------------------------------------ mapping table
\* Strings are sequences of character codes.
\* strings.ToLower
ToLower(s) == [i \in 1..Len(s) |-> IF s[i] \in 65..90 THEN s[i] + 32 ELSE s[i]]

Rec(short, long, proto) == [shortUrl |-> short, longUrl |-> long, protocol |-> proto]

\* the strings of the documents: "id", "ID", "w", "x", "y", "http"
StrId == <<105, 100>>

StrIdUpper == <<73, 68>>

StrW == <<119>>

StrX == <<120>>

StrY == <<121>>

StrHttp == <<104, 116, 116, 112>>

\* The documents the config file can hold.  kind: "json" (readable and
\* parsable), "unreadable" (os.ReadFile fails), "unparsable" (json.Unmarshal fails).
JsonDoc(success, data) == [kind |-> "json", success |-> success, data |-> data]

DocOne == JsonDoc(TRUE, << Rec(StrId, StrX, StrHttp) >>)

DocTwo == JsonDoc(TRUE, << Rec(StrIdUpper, StrY, StrHttp), Rec(StrW, StrX, StrHttp) >>)

DocPartly == JsonDoc(TRUE, << Rec(StrW, <<>>, StrHttp), Rec(StrW, StrY, StrHttp) >>)

DocRefused == JsonDoc(FALSE, << Rec(StrId, StrY, StrHttp) >>)

DocNoRecords == JsonDoc(TRUE, << Rec(<<>>, StrX, StrHttp) >>)

DocUnreadable == [kind |-> "unreadable", success |-> FALSE, data |-> <<>>]

DocUnparsable == [kind |-> "unparsable", success |-> FALSE, data |-> <<>>]

Docs == { DocOne, DocTwo, DocPartly, DocRefused, DocNoRecords, DocUnreadable, DocUnparsable }

\* the hosts requests ask for
Hosts == { StrId }

\* make(map[string]string)
EmptyMap == [k \in {} |-> <<>>]

\* newMap[key] = value
MapPut(m, key, value) ==
    [k \in DOMAIN m \cup { key } |-> IF k = key THEN value ELSE m[k]]

\* targetURL, found := ps.shortLinkMap[requestedHost]
MapGet(m, key) ==
    IF key \in DOMAIN m THEN [found |-> TRUE, targetURL |-> m[key]]
                        ELSE [found |-> FALSE, targetURL |-> <<>>]

\* fullURL := record.Protocol + "://" + record.LongURL
FullURL(record) == record.protocol \o <<58, 47, 47>> \o record.longUrl

\* if record.ShortURL != "" && record.LongURL != ""
Usable(record) == record.shortUrl # <<>> /\ record.longUrl # <<>>

\* os.ReadFile, json.Unmarshal and the apiResp.Success test: the error
\* loadMappingsFromFile returns before it builds anything, or "nil"
DocError(d) ==
    CASE d.kind = "unreadable" -> "read file"
      [] d.kind = "unparsable" -> "parse json"
      [] ~d.success -> "config error"
      [] OTHER -> "nil"

\* a load that starts from a copy of the live table (maps.Clone) and adds
\* the document's records to it
NewMapCloneLive == heap[shortLinkMap]

\* make(map[string]string): the new map starts empty
NewMapContents == EmptyMap

\* newMap aliasing the live map (newMap := ps.shortLinkMap): the load fills
\* the published object in place.
MakeMapAliasLive == shortLinkMap

\* newMap := make(map[string]string): a fresh map object, not the live one
MakeMap == clock + 1

tableRest == <<connVars, served, srvPc, lstVars, lifeVars, reqVars>>

\* The callers of loadMappingsFromFile: Start, on the main goroutine, and
\* reloadMappings, on the goroutine that serves reloadChan.  Each call has
\* its own position and its own locals.
LoadTasks == { "main", "reload" }

\* no call of loadMappingsFromFile is in progress
NoLoad == \A t \in LoadTasks : loadPc[t] = "idle"

\* The config file is rewritten, with no load running and no SIGUSR1
\* waiting; only a load reads it, at its start.
EditFile(d) ==
    /\ NoLoad
    /\ reloadChan = 0
    /\ phase # "aborted"
    /\ mainPc # "stopped"
    /\ doc # d
    /\ doc' = d
    /\ UNCHANGED <<heap, shortLinkMap, lastSyncTime, clock, mapWriter, mapReaders,
                   loadPc, newMap, apiResp, idx, loadErr, phase, rPc, rHost, rSeen>>
    /\ UNCHANGED <<tableRest, reloadChan, liveDoc>>

\* loadMappingsFromFile returns err to its caller: fatal for the initial
\* load (Start), logged for a reload (reloadMappings)
LoadReturn(t, err) ==
    /\ loadErr' = err
    /\ loadPc' = [loadPc EXCEPT ![t] = "idle"]
    /\ phase' = IF t = "main"
                   THEN (IF err = "nil" THEN "serving" ELSE "aborted")
                   ELSE phase

\* the locals of a call that returned are gone
DropLocals(t) ==
    /\ newMap' = [newMap EXCEPT ![t] = 0]
    /\ apiResp' = [apiResp EXCEPT ![t] = <<>>]
    /\ idx' = [idx EXCEPT ![t] = 1]

\* The reload goroutine started before the initial load, with the signal
\* handlers set up first.
ReloadRunningFromStart == mainPc # "stopped"

\* A reload goroutine that never receives from reloadChan.
ReloadRunningNever == FALSE

\* the goroutine that serves reloadChan runs from its go statement on
ReloadRunning == mainPc \notin { "load", "goReload", "stopped" }

\* reloadChan := make(chan os.Signal, 1)
ReloadChanCap == 1

\* signal.Notify(reloadChan, syscall.SIGUSR1) ran: it is the statement
\* before the go statement of the reload goroutine
Notified == ReloadRunning \/ mainPc = "goReload"

\* SIGUSR1 arrives once signal.Notify(reloadChan, syscall.SIGUSR1) ran: the
\* runtime's send does not block, a signal that finds the channel full is
\* dropped.  Signals stop when the loads they ask for reach MaxLoads.
SigUsr1 ==
    /\ Notified
    /\ clock < MaxLoads
    /\ reloadChan' = Min(reloadChan + 1, ReloadChanCap)
    /\ UNCHANGED <<doc, heap, shortLinkMap, lastSyncTime, clock, mapWriter, mapReaders,
                   loadPc, newMap, apiResp, idx, loadErr, phase, rPc, rHost, rSeen>>
    /\ UNCHANGED <<tableRest, liveDoc>>

\* loadMappingsFromFile up to newMap := make(...): the initial load in Start,
\* or reloadMappings for a signal the reload goroutine received
LoadRead(t) ==
    /\ loadPc[t] = "idle"
    /\ \/ t = "main" /\ mainPc = "load" /\ phase = "loading" /\ UNCHANGED reloadChan
       \/ t = "reload" /\ ReloadRunning /\ reloadChan > 0
             /\ reloadChan' = reloadChan - 1
    /\ clock < MaxLoads
    /\ clock' = clock + 1
    /\ IF DocError(doc) # "nil"
          THEN /\ LoadReturn(t, DocError(doc))
               /\ UNCHANGED <<heap, newMap, apiResp, idx>>
          ELSE /\ newMap' = [newMap EXCEPT ![t] = MakeMap]
               /\ heap' = IF MakeMap \in DOMAIN heap
                             THEN heap
                             ELSE [i \in DOMAIN heap \cup { MakeMap } |->
                                     IF i = MakeMap THEN NewMapContents ELSE heap[i]]
               /\ apiResp' = [apiResp EXCEPT ![t] = doc.data]
               /\ idx' = [idx EXCEPT ![t] = 1]
               /\ loadPc' = [loadPc EXCEPT ![t] = "range"]
               /\ UNCHANGED <<loadErr, phase>>
    /\ UNCHANGED <<doc, shortLinkMap, lastSyncTime, mapWriter, mapReaders, rPc, rHost, rSeen>>
    /\ UNCHANGED <<tableRest, liveDoc>>

\* for _, record := range apiResp.Data { ... }: one record
LoadRecord(t) ==
    /\ loadPc[t] = "range"
    /\ idx[t] <= Len(apiResp[t])
    /\ LET record == apiResp[t][idx[t]] IN
       heap' = IF Usable(record)
                  THEN [heap EXCEPT ![newMap[t]] =
                          MapPut(heap[newMap[t]], ToLower(record.shortUrl), FullURL(record))]
                  ELSE heap
    /\ idx' = [idx EXCEPT ![t] = idx[t] + 1]
    /\ UNCHANGED <<doc, shortLinkMap, lastSyncTime, clock, mapWriter, mapReaders,
                   loadPc, newMap, apiResp, loadErr, phase, rPc, rHost, rSeen>>
    /\ UNCHANGED <<tableRest, reloadChan, liveDoc>>

\* a load that accepts a map with no entry
NoValidRecordsNever(m) == FALSE

\* len(newMap) == 0
NoValidRecords(m) == DOMAIN m = {}

\* if len(newMap) == 0 { return error }; ps.mapMutex.Lock()
LoadLock(t) ==
    /\ loadPc[t] = "range"
    /\ idx[t] > Len(apiResp[t])
    /\ IF NoValidRecords(heap[newMap[t]])
          THEN /\ LoadReturn(t, "no valid records")
               /\ DropLocals(t)
               /\ heap' = [i \in DOMAIN heap \ ({ newMap[t] } \ { shortLinkMap }) |-> heap[i]]
               /\ UNCHANGED mapWriter
          ELSE /\ mapReaders = {}
               /\ ~mapWriter
               /\ mapWriter' = TRUE
               /\ loadPc' = [loadPc EXCEPT ![t] = "swap"]
               /\ UNCHANGED <<heap, loadErr, phase, newMap, apiResp, idx>>
    /\ UNCHANGED <<doc, shortLinkMap, lastSyncTime, clock, mapReaders, rPc, rHost, rSeen>>
    /\ UNCHANGED <<tableRest, reloadChan, liveDoc>>

\* ps.shortLinkMap = newMap  (the map it replaces becomes garbage)
LoadSwap(t) ==
    /\ loadPc[t] = "swap"
    /\ shortLinkMap' = newMap[t]
    /\ heap' = [i \in DOMAIN heap \ ({ shortLinkMap } \ { newMap[t] }) |-> heap[i]]
    /\ loadPc' = [loadPc EXCEPT ![t] = "stamp"]
    /\ UNCHANGED <<doc, lastSyncTime, clock, mapWriter, mapReaders,
                   newMap, apiResp, idx, loadErr, phase, rPc, rHost, rSeen>>
    /\ liveDoc' = doc
    /\ UNCHANGED <<tableRest, reloadChan>>

\* ps.lastSyncTime = time.Now()
LoadStamp(t) ==
    /\ loadPc[t] = "stamp"
    /\ lastSyncTime' = clock
    /\ loadPc' = [loadPc EXCEPT ![t] = "unlock"]
    /\ UNCHANGED <<doc, heap, shortLinkMap, clock, mapWriter, mapReaders,
                   newMap, apiResp, idx, loadErr, phase, rPc, rHost, rSeen>>
    /\ UNCHANGED <<tableRest, reloadChan, liveDoc>>

\* ps.mapMutex.Unlock(); return nil
LoadUnlock(t) ==
    /\ loadPc[t] = "unlock"
    /\ mapWriter' = FALSE
    /\ LoadReturn(t, "nil")
    /\ DropLocals(t)
    /\ UNCHANGED <<doc, heap, shortLinkMap, lastSyncTime, clock, mapReaders,
                   rPc, rHost, rSeen>>
    /\ UNCHANGED <<tableRest, reloadChan, liveDoc>>

loadMappingsFromFile ==
    \E t \in LoadTasks :
        LoadRead(t) \/ LoadRecord(t) \/ LoadLock(t) \/ LoadSwap(t) \/ LoadStamp(t)
            \/ LoadUnlock(t)

\* ------------------------------------------------------------ handleRequest
\* the characters '/' and ':'
Slash == <<47>>

Colon == <<58>>

\* the request paths the handler routes on: "/check", "/health", "/proxy.pac"
PathCheck == <<47, 99, 104, 101, 99, 107>>

PathHealth == <<47, 104, 101, 97, 108, 116, 104>>

PathPac == <<47, 112, 114, 111, 120, 121, 46, 112, 97, 99>>

\* a handler that looks the Host header up with its port
BeforeColonKeepPort(s) == s

\* strings.Split(host, ":")[0]: what precedes the first ':'
RECURSIVE BeforeColon(_)
BeforeColon(s) ==
    IF s = <<>> \/ Head(s) = 58 THEN <<>> ELSE <<Head(s)>> \o BeforeColon(Tail(s))

\* strings.TrimRight(s, "/")
RECURSIVE TrimRight(_)
TrimRight(s) ==
    IF s # <<>> /\ s[Len(s)] = 47 THEN TrimRight(SubSeq(s, 1, Len(s) - 1)) ELSE s

\* strings.TrimLeft(s, "/")
RECURSIVE TrimLeft(_)
TrimLeft(s) ==
    IF s # <<>> /\ Head(s) = 47 THEN TrimLeft(Tail(s)) ELSE s

\* strings.ReplaceAll(s, "//", "/"): one pass from the left over the
\* non-overlapping occurrences; what it wrote is not scanned again
RECURSIVE ReplaceAll(_)
ReplaceAll(s) ==
    IF Len(s) < 2 THEN s
    ELSE IF s[1] = 47 /\ s[2] = 47 THEN Slash \o ReplaceAll(SubSeq(s, 3, Len(s)))
    ELSE <<Head(s)>> \o ReplaceAll(Tail(s))

\* parsedTarget.Path = TrimRight(parsedTarget.Path, "/") + "/" + TrimLeft(r.URL.Path, "/"),
\* then ReplaceAll(parsedTarget.Path, "//", "/")
ComposePath(base, path) == ReplaceAll(TrimRight(base) \o Slash \o TrimLeft(path))

IsLetter(ch) == ch \in 65..90 \/ ch \in 97..122

IsDigit(ch) == ch \in 48..57

\* url.getScheme: the index of the ':' that ends the scheme, 0 when the
\* string has no scheme, -1 for "missing protocol scheme" (':' comes first)
RECURSIVE SchemeEnd(_, _)
SchemeEnd(s, i) ==
    IF i > Len(s) THEN 0
    ELSE IF IsLetter(s[i]) THEN SchemeEnd(s, i + 1)
    ELSE IF IsDigit(s[i]) \/ s[i] \in { 43, 45, 46 }
            THEN (IF i = 1 THEN 0 ELSE SchemeEnd(s, i + 1))
    ELSE IF s[i] = 58 THEN (IF i = 1 THEN -1 ELSE i)
    ELSE 0

\* the index of the first '/' of s, Len(s) + 1 when it has none
RECURSIVE FirstSlash(_, _)
FirstSlash(s, i) ==
    IF i > Len(s) \/ s[i] = 47 THEN i ELSE FirstSlash(s, i + 1)

\* the index of the last ':' of s, 0 when it has none
RECURSIVE LastColon(_, _)
LastColon(s, i) ==
    IF i = 0 \/ s[i] = 58 THEN i ELSE LastColon(s, i - 1)

\* url.validOptionalPort on what follows the host's last ':'
ValidPort(authority) ==
    LET i == LastColon(authority, Len(authority)) IN
    i = 0 \/ \A j \in (i + 1)..Len(authority) : IsDigit(authority[j])

UrlError == [ok |-> FALSE, scheme |-> <<>>, host |-> <<>>, path |-> <<>>, rawQuery |-> <<>>]

\* url.Parse on protocol + "://" + longUrl, for strings of letters, digits,
\* '.', '-', '/' and ':' (no '?', '#', '%', '@', '[' or control byte): the
\* scheme is lower-cased, "//" opens the authority, which runs to the next
\* '/', and the rest is the path.  A string with no scheme that does not
\* start with '/' is a path, unless its first segment holds a ':'; a scheme
\* not followed by '/' makes an opaque URL, which the documents never hold.
UrlParse(s) ==
    LET e == SchemeEnd(s, 1)
        rest == IF e > 0 THEN SubSeq(s, e + 1, Len(s)) ELSE s
        scheme == IF e > 0 THEN ToLower(SubSeq(s, 1, e - 1)) ELSE <<>>
        hasAuthority == Len(rest) >= 2 /\ rest[1] = 47 /\ rest[2] = 47
                        /\ (scheme # <<>> \/ ~(Len(rest) >= 3 /\ rest[3] = 47))
        afterSlashes == SubSeq(rest, 3, Len(rest))
        cut == FirstSlash(afterSlashes, 1)
        authority == IF hasAuthority THEN SubSeq(afterSlashes, 1, cut - 1) ELSE <<>>
        path == IF hasAuthority THEN SubSeq(afterSlashes, cut, Len(afterSlashes)) ELSE rest
    IN  IF e = -1 THEN UrlError
        ELSE IF scheme = <<>> /\ (rest = <<>> \/ rest[1] # 47)
                /\ LastColon(SubSeq(rest, 1, FirstSlash(rest, 1) - 1),
                             FirstSlash(rest, 1) - 1) # 0
             THEN UrlError
        ELSE IF ~ValidPort(authority) THEN UrlError
        ELSE [ok |-> TRUE, scheme |-> scheme, host |-> authority, path |-> path,
              rawQuery |-> <<>>]

\* URL.String(): scheme ":" "//" host path "?" query, for a URL with a
\* scheme and a path of characters that need no escaping
UrlString(u) ==
    (IF u.scheme # <<>> THEN u.scheme \o Colon ELSE <<>>)
    \o (IF (u.scheme # <<>> \/ u.host # <<>>) /\ (u.host # <<>> \/ u.path # <<>>)
           THEN Slash \o Slash ELSE <<>>)
    \o u.host
    \o (IF u.path # <<>> /\ u.path[1] # 47 /\ u.host # <<>> THEN Slash ELSE <<>>)
    \o u.path
    \o (IF u.rawQuery # <<>> THEN <<63>> \o u.rawQuery ELSE <<>>)

\* fmt.Sprintf("No short link mapping found for \"%s\"", requestedHost),
\* and the newline http.Error adds
NotFoundBody(requestedHost) ==
    << 78, 111, 32, 115, 104, 111, 114, 116, 32, 108, 105, 110, 107, 32, 109, 97, 112,
       112, 105, 110, 103, 32, 102, 111, 117, 110, 100, 32, 102, 111, 114, 32, 34 >>
    \o requestedHost \o <<34, 10>>

StatusOK == 200

StatusFound == 302

StatusBadRequest == 400

StatusNotFound == 404

StatusInternalServerError == 500

Response(status, location, body) == [status |-> status, location |-> location, body |-> body]

NoResponse == Response(0, <<>>, <<>>)

\* a handler that redirects without looking at url.Parse's error
RedirectResponseNoParseCheck(req, requestedHost, seen) ==
    IF ~seen.found THEN Response(StatusNotFound, <<>>, NotFoundBody(requestedHost))
    ELSE LET parsedTarget == UrlParse(seen.targetURL) IN
         Response(StatusFound,
                  UrlString([parsedTarget EXCEPT
                               !.path = ComposePath(parsedTarget.path, req.path),
                               !.rawQuery = req.query]),
                  <<>>)

\* handleRequest from `if !found` to http.Redirect: the response for what
\* the lookup returned
RedirectResponse(req, requestedHost, seen) ==
    IF ~seen.found THEN Response(StatusNotFound, <<>>, NotFoundBody(requestedHost))
    ELSE LET parsedTarget == UrlParse(seen.targetURL) IN
         IF ~parsedTarget.ok THEN Response(StatusInternalServerError, <<>>, <<>>)
         ELSE Response(StatusFound,
                       UrlString([parsedTarget EXCEPT
                                    !.path = ComposePath(parsedTarget.path, req.path),
                                    !.rawQuery = req.query]),
                       <<>>)

\* a request: r.URL.Path, r.URL.RawQuery and r.Host.  The server parses the
\* request target with no fragment, so r.URL.Fragment is empty.
Request(path, query, host) == [path |-> path, query |-> query, host |-> host]

NoRequest == Request(<<>>, <<>>, <<>>)

\* handleCheck's locals.  sizeFrom and samplesFrom name the map object each
\* read-locked section looked at.
NoLocals ==
    [tmp |-> 0, mapSize |-> 0, lastSync |-> 0, sizeFrom |-> 0, requestCount |-> 0,
     samples |-> {}, samplesFrom |-> 0]

\* the first 5 entries of `for key, value := range ps.shortLinkMap`
SampleLimit == 5

Entries(m) == { [short |-> k, target |-> m[k]] : k \in DOMAIN m }

\* Go's map iteration order is unspecified: any SampleLimit entries
SampleSets(m) ==
    { S \in SUBSET Entries(m) : Cardinality(S) = Min(SampleLimit, Cardinality(DOMAIN m)) }

loadVars == <<doc, heap, shortLinkMap, lastSyncTime, clock, mapWriter,
              loadPc, newMap, apiResp, idx, loadErr, phase, reloadChan, liveDoc>>

reqRest == <<connVars, served, srvPc, lstVars, lifeVars>>

\* ps.mapMutex.RLock() is granted while no writer holds the mutex
RLockFree == ~mapWriter

\* countMutex with no mutual exclusion
CountMuFreeNoMutex == TRUE

\* ps.countMutex.Lock() and RLock() are granted while no writer holds it
CountMuFree == countMu = 0

\* requests reach the handler on connections that server.Serve accepted;
\* the number of requests in a run is bounded
MayArrive(r) ==
    /\ srvPc # "unstarted"
    /\ rPc[r] = "idle"
    /\ handled + Cardinality({ q \in Readers : rPc[q] # "idle" }) < MaxRequests

\* handleRequest up to the counter: the /check, /health and /proxy.pac routes
ReqArrive(r, req) ==
    /\ MayArrive(r)
    /\ rReq' = [rReq EXCEPT ![r] = req]
    /\ IF req.path \in { PathCheck, PathHealth }
          THEN /\ rPc' = [rPc EXCEPT ![r] = "checkRLock"]
               /\ UNCHANGED rResp
          ELSE IF req.path = PathPac
          THEN /\ rPc' = [rPc EXCEPT ![r] = "done"]
               /\ rResp' = [rResp EXCEPT ![r] = Response(StatusOK, <<>>, <<>>)]
          ELSE /\ rPc' = [rPc EXCEPT ![r] = "count"]
               /\ UNCHANGED rResp
    /\ UNCHANGED <<mapReaders, rHost, rSeen, requestCount, countMu, handled, rLoc>>
    /\ UNCHANGED <<loadVars, reqRest>>

\* ps.countMutex.Lock(); ps.requestCount++ reads the counter
CountLock(r) ==
    /\ rPc[r] = "count"
    /\ CountMuFree
    /\ countMu' = r
    /\ rLoc' = [rLoc EXCEPT ![r].tmp = requestCount]
    /\ rPc' = [rPc EXCEPT ![r] = "countWrite"]
    /\ UNCHANGED <<mapReaders, rHost, rSeen, requestCount, handled, rReq, rResp>>
    /\ UNCHANGED <<loadVars, reqRest>>

\* ps.requestCount++ writes the counter; ps.countMutex.Unlock(); then
\* host := r.Host; 400 when it is empty, else
\* requestedHost := strings.ToLower(strings.Split(host, ":")[0])
CountUnlock(r) ==
    /\ rPc[r] = "countWrite"
    /\ requestCount' = rLoc[r].tmp + 1
    /\ handled' = handled + 1
    /\ countMu' = IF countMu = r THEN 0 ELSE countMu
    /\ IF rReq[r].host = <<>>
          THEN /\ rResp' = [rResp EXCEPT ![r] = Response(StatusBadRequest, <<>>, <<>>)]
               /\ rPc' = [rPc EXCEPT ![r] = "done"]
               /\ UNCHANGED rHost
          ELSE /\ rHost' = [rHost EXCEPT ![r] = ToLower(BeforeColon(rReq[r].host))]
               /\ rPc' = [rPc EXCEPT ![r] = "rlock"]
               /\ UNCHANGED rResp
    /\ UNCHANGED <<mapReaders, rSeen, rReq, rLoc>>
    /\ UNCHANGED <<loadVars, reqRest>>

\* ps.mapMutex.RLock()
ReqRLock(r) ==
    /\ rPc[r] = "rlock"
    /\ RLockFree
    /\ mapReaders' = mapReaders \cup { r }
    /\ rPc' = [rPc EXCEPT ![r] = "lookup"]
    /\ UNCHANGED <<rHost, rSeen, reqVars>>
    /\ UNCHANGED <<loadVars, reqRest>>

\* targetURL, found := ps.shortLinkMap[requestedHost]
ReqLookup(r) ==
    /\ rPc[r] = "lookup"
    /\ rSeen' = [rSeen EXCEPT ![r] = MapGet(heap[shortLinkMap], rHost[r])]
    /\ rPc' = [rPc EXCEPT ![r] = "runlock"]
    /\ UNCHANGED <<mapReaders, rHost, reqVars>>
    /\ UNCHANGED <<loadVars, reqRest>>

\* ps.mapMutex.RUnlock()
ReqRUnlock(r) ==
    /\ rPc[r] = "runlock"
    /\ mapReaders' = mapReaders \ { r }
    /\ rPc' = [rPc EXCEPT ![r] = "respond"]
    /\ UNCHANGED <<rHost, rSeen, reqVars>>
    /\ UNCHANGED <<loadVars, reqRest>>

\* the response, from the locals alone: 404, 500 or the redirect
ReqRespond(r) ==
    /\ rPc[r] = "respond"
    /\ rResp' = [rResp EXCEPT ![r] = RedirectResponse(rReq[r], rHost[r], rSeen[r])]
    /\ rPc' = [rPc EXCEPT ![r] = "done"]
    /\ UNCHANGED <<mapReaders, rHost, rSeen, requestCount, countMu, handled, rReq, rLoc>>
    /\ UNCHANGED <<loadVars, reqRest>>

\* handleCheck: the first ps.mapMutex.RLock()
CheckRLock(r) ==
    /\ rPc[r] = "checkRLock"
    /\ RLockFree
    /\ mapReaders' = mapReaders \cup { r }
    /\ rPc' = [rPc EXCEPT ![r] = "checkSize"]
    /\ UNCHANGED <<rHost, rSeen, reqVars>>
    /\ UNCHANGED <<loadVars, reqRest>>

\* mapSize := len(ps.shortLinkMap); lastSync := ps.lastSyncTime; RUnlock()
CheckSize(r) ==
    /\ rPc[r] = "checkSize"
    /\ mapReaders' = mapReaders \ { r }
    /\ rLoc' = [rLoc EXCEPT ![r].mapSize = Cardinality(DOMAIN heap[shortLinkMap]),
                            ![r].lastSync = lastSyncTime,
                            ![r].sizeFrom = shortLinkMap]
    /\ rPc' = [rPc EXCEPT ![r] = "checkCount"]
    /\ UNCHANGED <<rHost, rSeen, requestCount, countMu, handled, rReq, rResp>>
    /\ UNCHANGED <<loadVars, reqRest>>

\* ps.countMutex.RLock(); requestCount := ps.requestCount; RUnlock()
CheckCount(r) ==
    /\ rPc[r] = "checkCount"
    /\ CountMuFree
    /\ rLoc' = [rLoc EXCEPT ![r].requestCount = requestCount]
    /\ rPc' = [rPc EXCEPT ![r] = "checkRLock2"]
    /\ UNCHANGED <<mapReaders, rHost, rSeen, requestCount, countMu, handled, rReq, rResp>>
    /\ UNCHANGED <<loadVars, reqRest>>

\* the second ps.mapMutex.RLock(), after the response map was built
CheckRLock2(r) ==
    /\ rPc[r] = "checkRLock2"
    /\ RLockFree
    /\ mapReaders' = mapReaders \cup { r }
    /\ rPc' = [rPc EXCEPT ![r] = "checkSamples"]
    /\ UNCHANGED <<rHost, rSeen, reqVars>>
    /\ UNCHANGED <<loadVars, reqRest>>

\* the range loop over ps.shortLinkMap; RUnlock(); the response is encoded
CheckSamples(r) ==
    /\ rPc[r] = "checkSamples"
    /\ mapReaders' = mapReaders \ { r }
    /\ \E S \in SampleSets(heap[shortLinkMap]) :
          rLoc' = [rLoc EXCEPT ![r].samples = S, ![r].samplesFrom = shortLinkMap]
    /\ rResp' = [rResp EXCEPT ![r] = Response(StatusOK, <<>>, <<>>)]
    /\ rPc' = [rPc EXCEPT ![r] = "done"]
    /\ UNCHANGED <<rHost, rSeen, requestCount, countMu, handled, rReq>>
    /\ UNCHANGED <<loadVars, reqRest>>

handleCheck(r) == CheckRLock(r) \/ CheckSize(r) \/ CheckCount(r) \/ CheckRLock2(r)
                     \/ CheckSamples(r)

\* the handler has returned and the response is with the client
ReqEnd(r) ==
    /\ rPc[r] = "done"
    /\ rPc' = [rPc EXCEPT ![r] = "idle"]
    /\ rHost' = [rHost EXCEPT ![r] = <<>>]
    /\ rSeen' = [rSeen EXCEPT ![r] = MapGet(EmptyMap, <<>>)]
    /\ rReq' = [rReq EXCEPT ![r] = NoRequest]
    /\ rResp' = [rResp EXCEPT ![r] = NoResponse]
    /\ rLoc' = [rLoc EXCEPT ![r] = NoLocals]
    /\ UNCHANGED <<mapReaders, requestCount, countMu, handled>>
    /\ UNCHANGED <<loadVars, reqRest>>

\* handleRequest on the requests reqs, one step of request r, for requests
\* that are not routed to handleCheck
handleRedirect(r, reqs) ==
    \/ \E req \in reqs : ReqArrive(r, req)
    \/ CountLock(r) \/ CountUnlock(r)
    \/ ReqRLock(r) \/ ReqLookup(r) \/ ReqRUnlock(r) \/ ReqRespond(r)
    \/ ReqEnd(r)

\* handleRequest on the requests reqs, one step of request r
handleRequest(r, reqs) == handleRedirect(r, reqs) \/ handleCheck(r)

\* ------------------------------------------------- Start, from its first line
\* the connections ChannelListener.Accept returned
ServedSet == { served[i] : i \in 1..Len(served) }

\* if err := ps.loadMappingsFromFile(); err != nil { log.Fatalf(...) }
Abort ==
    /\ mainPc = "load"
    /\ phase = "aborted"
    /\ mainPc' = "stopped"
    /\ exit' = "fatal"
    /\ UNCHANGED <<connVars, served, srvPc, lstVars, loopPc, realOpen, tableVars>>

\* Start going on whatever the initial load returned (no log.Fatalf)
InitialLoadIgnored == phase \in { "serving", "aborted" }

\* Start goes past `if err := ps.loadMappingsFromFile(); err != nil` when
\* the initial load returned nil
InitialLoadOK == phase = "serving"

\* the initial load returned nil: listener, err := net.Listen(...), which
\* can fail (Start returns err and main exits); NewChannelListener, the
\* server and the signal channels
Listen(ok) ==
    /\ mainPc = "load"
    /\ InitialLoadOK
    /\ IF ok THEN /\ realOpen' = TRUE
                  /\ mainPc' = "goReload"
                  /\ UNCHANGED exit
             ELSE /\ mainPc' = "stopped"
                  /\ exit' = "error"
                  /\ UNCHANGED realOpen
    /\ UNCHANGED <<connVars, served, srvPc, lstVars, loopPc, tableVars>>

\* go func() { for range reloadChan { ps.reloadMappings() } }()
GoReload ==
    /\ mainPc = "goReload"
    /\ mainPc' = "goLoop"
    /\ UNCHANGED <<connVars, served, srvPc, lstVars, loopPc, realOpen, exit, tableVars>>

\* go func() { for { conn, err := listener.Accept() ... } }()
GoLoop ==
    /\ mainPc = "goLoop"
    /\ loopPc' = "accept"
    /\ mainPc' = "goServe"
    /\ UNCHANGED <<connVars, served, srvPc, lstVars, realOpen, exit, tableVars>>

\* go func() { server.Serve(httpListener) }(); Start waits on shutdownChan
GoServe ==
    /\ mainPc = "goServe"
    /\ srvPc' = "accept"
    /\ mainPc' = "serving"
    /\ UNCHANGED <<connVars, served, lstVars, loopPc, realOpen, exit, tableVars>>

\* the connections the HTTP server holds with a request in progress:
\* request r is the one on connection r
ActiveConns == { c \in ServedSet : c \in Readers /\ rPc[c] # "idle" }

\* shutdownCtx without its deadline (context.Background())
DrainDeadlineNever == FALSE

\* context.WithTimeout(context.Background(), 10*time.Second): the deadline
\* passes while Shutdown polls
DrainDeadline == TRUE

\* server.Shutdown(shutdownCtx) after it closed the listener: no connection
\* has a request in progress, it returns nil and Start returns nil
DrainDone ==
    /\ mainPc = "shutdown"
    /\ closerPc[1] = "returned"
    /\ ActiveConns = {}
    /\ mainPc' = "stopped"
    /\ exit' = "clean"
    /\ UNCHANGED <<connVars, served, srvPc, lstVars, loopPc, realOpen, tableVars>>

\* server.Shutdown returns shutdownCtx's error with a request still in
\* progress: Start returns err and main calls log.Fatalf
DrainTimeout ==
    /\ mainPc = "shutdown"
    /\ closerPc[1] = "returned"
    /\ ActiveConns # {}
    /\ DrainDeadline
    /\ mainPc' = "stopped"
    /\ exit' = "error"
    /\ UNCHANGED <<connVars, served, srvPc, lstVars, loopPc, realOpen, tableVars>>

\* Start up to its wait for a signal
StartUp ==
    \/ Abort
    \/ \E ok \in BOOLEAN : Listen(ok)
    \/ GoReload
    \/ GoLoop
    \/ GoServe

\* Start, the steps of the main goroutine
Start ==
    \/ StartUp
    \/ Signal
    \/ ListenerClose
    \/ DrainDone
    \/ DrainTimeout

\* NewProxyServer: an empty map, no load yet; the file holds any document
InitTable(docs) ==
    /\ doc \in docs
    /\ heap = [i \in { 0 } |-> EmptyMap]
    /\ shortLinkMap = 0
    /\ lastSyncTime = 0
    /\ clock = 0
    /\ mapWriter = FALSE
    /\ mapReaders = {}
    /\ loadPc = [t \in LoadTasks |-> "idle"]
    /\ newMap = [t \in LoadTasks |-> 0]
    /\ apiResp = [t \in LoadTasks |-> <<>>]
    /\ idx = [t \in LoadTasks |-> 1]
    /\ loadErr = "none"
    /\ phase = "loading"
    /\ rPc = [r \in Readers |-> "idle"]
    /\ rHost = [r \in Readers |-> <<>>]
    /\ rSeen = [r \in Readers |-> MapGet(EmptyMap, <<>>)]
    /\ requestCount = 0
    /\ countMu = 0
    /\ handled = 0
    /\ rReq = [r \in Readers |-> NoRequest]
    /\ rResp = [r \in Readers |-> NoResponse]
    /\ rLoc = [r \in Readers |-> NoLocals]
    /\ reloadChan = 0
    /\ liveDoc = DocUnreadable

\* ---------------------------------------------------------- specifications
InitListener ==
    /\ served = <<>>
    /\ srvPc = "accept"
    /\ lclosed = FALSE
    /\ closeCount = 0
    /\ closeMu = 0
    /\ closerPc = [k \in Closers |-> "idle"]
    /\ loopPc = "accept"
    /\ realOpen = TRUE
    /\ mainPc = "serving"
    /\ exit = "running"

\* the process at the first line of Start: nothing listens, no goroutine runs
InitStart ==
    /\ served = <<>>
    /\ srvPc = "unstarted"
    /\ lclosed = FALSE
    /\ closeCount = 0
    /\ closeMu = 0
    /\ closerPc = [k \in Closers |-> "idle"]
    /\ loopPc = "unstarted"
    /\ realOpen = FALSE
    /\ mainPc = "load"
    /\ exit = "running"

InitConns(streams) ==
    /\ stream \in streams
    /\ sock = stream
    /\ rbuf = [c \in Conns |-> <<>>]
    /\ buf = [c \in Conns |-> <<>>]
    /\ out = [c \in Conns |-> <<>>]
    /\ pc = [c \in Conns |-> "idle"]
    /\ hsErr = [c \in Conns |-> "none"]
    /\ connClosed = [c \in Conns |-> FALSE]
    /\ httpGot = [c \in Conns |-> <<>>]
    /\ lateSubmit = [c \in Conns |-> FALSE]

\* Every connection's client sends one of the small streams and then stays
\* silent or half-closes.
Init ==
    /\ clientEnd \in [Conns -> { "open", "eof" }]
    /\ InitConns([Conns -> SmallStreams])
    /\ InitListener
    /\ InitTable({ DocOne })

\* handleConnection, one step of the task of connection c
HandleConnection(c) ==
    Peek(c) \/ CloseFailed(c) \/ Handshake(c) \/ Submit(c) \/ SubmitWoken(c)

Next ==
    \/ \E c \in Conns : AcceptConn(c) \/ HandleConnection(c) \/ HttpRead(c)
    \/ Accept
    \/ AcceptWoken
    \/ \E k \in Closers : Close(k)
    \/ AcceptError
    \/ AcceptRetry
    \/ Signal
    \/ ListenerClose

Spec == Init /\ [][Next]_vars

\* The sniffer on every byte stream: connection 1's client sends any of
\* Streams, the other clients connect and send nothing; no shutdown.
InitSniff ==
    /\ clientEnd \in { f \in [Conns -> ClientEnds] : \A c \in Conns : c # 1 => f[c] = "open" }
    /\ InitConns({ f \in [Conns -> Streams] : \A c \in Conns : c # 1 => f[c] = <<>> })
    /\ InitListener
    /\ InitTable({ DocOne })

NextSniff ==
    \/ \E c \in Conns : AcceptConn(c) \/ Peek(c) \/ CloseFailed(c) \/ Handshake(c)
                           \/ Submit(c) \/ HttpRead(c)
    \/ Accept

SpecSniff == InitSniff /\ [][NextSniff]_vars

\* The Go scheduler runs every runnable goroutine: the accept loop, each
\* connection's task, Serve's loop and the HTTP server's reads all take
\* their next step when it stays possible.  Clients owe nothing.
FairSniff ==
    /\ SpecSniff
    /\ \A c \in Conns :
          /\ WF_vars(AcceptConn(c))
          /\ WF_vars(Peek(c) \/ CloseFailed(c) \/ Handshake(c) \/ Submit(c))
          /\ WF_vars(HttpRead(c))
    /\ WF_vars(Accept)

\* The mapping table under loads, file edits and concurrent lookups; no
\* connection is opened.
InitTableSpec ==
    /\ clientEnd = [c \in Conns |-> "open"]
    /\ InitConns({ [c \in Conns |-> <<>>] })
    /\ InitStart
    /\ InitTable(Docs)

\* redirect requests for the hosts of Hosts
TableRequests == { Request(Slash, <<>>, h) : h \in Hosts }

NextTable ==
    \/ StartUp
    \/ SigUsr1
    \/ \E d \in Docs : EditFile(d)
    \/ loadMappingsFromFile
    \/ \E r \in Readers : handleRedirect(r, TableRequests)

SpecTable == InitTableSpec /\ [][NextTable]_vars

\* /check and /health next to reloads that alternate between two documents,
\* and a redirect request.
CheckDocs == { DocOne, DocTwo }

CheckRequests ==
    { Request(PathCheck, <<>>, StrId), Request(PathHealth, <<>>, StrId),
      Request(Slash, <<>>, StrId) }

InitCheck ==
    /\ clientEnd = [c \in Conns |-> "open"]
    /\ InitConns({ [c \in Conns |-> <<>>] })
    /\ InitStart
    /\ InitTable(CheckDocs \cup { DocRefused })

NextCheck ==
    \/ StartUp
    \/ SigUsr1
    \/ \E d \in CheckDocs : EditFile(d)
    \/ loadMappingsFromFile
    \/ \E r \in Readers : handleRequest(r, CheckRequests)

SpecCheck == InitCheck /\ [][NextCheck]_vars

\* The whole run of Start: the initial load of a document that loads or
\* is refused, the goroutines, the signal and the shutdown; no SIGUSR1.
\* The first client sends the first byte of a plain request and a request
\* is handled on its connection; each other client does the same, or sends
\* a SOCKS5 version byte and goes silent, which leaves its task waiting in
\* the handshake, or closes without a byte.
LifeDocs == { DocOne, DocRefused }

LifeClients == { <<<<71>>, "open">>, <<<<5>>, "open">>, <<<<>>, "eof">> }

LifeRequests == { Request(Slash, <<>>, StrId) }

InitLife ==
    /\ \E f \in [Conns -> LifeClients] :
          /\ f[1] = <<<<71>>, "open">>
          /\ clientEnd = [c \in Conns |-> f[c][2]]
          /\ InitConns({ [c \in Conns |-> f[c][1]] })
    /\ InitStart
    /\ InitTable(LifeDocs)

\* request r is the one on connection r, once the HTTP server has it
ReqArriveOnConn(r, req) ==
    /\ r \in ServedSet
    /\ ReqArrive(r, req)

NextLife ==
    \/ Start
    \/ loadMappingsFromFile
    \/ \E c \in Conns : AcceptConn(c) \/ Peek(c) \/ CloseFailed(c) \/ Submit(c)
                           \/ SubmitWoken(c) \/ HttpRead(c)
    \/ Accept
    \/ AcceptWoken
    \/ AcceptError
    \/ AcceptRetry
    \/ Close(1)
    \/ \E r \in Readers :
          \/ \E req \in LifeRequests : ReqArriveOnConn(r, req)
          \/ CountLock(r) \/ CountUnlock(r)
          \/ ReqRLock(r) \/ ReqLookup(r) \/ ReqRUnlock(r) \/ ReqRespond(r)
          \/ ReqEnd(r)

SpecLife == InitLife /\ [][NextLife]_vars

\* The main goroutine is scheduled: listener.Close(), server.Shutdown's
\* close of the listener and its polling loop, which ends when no request
\* is in progress or when the deadline passes.  Nothing is assumed of the
\* clients, the requests or the other goroutines.
FairLife ==
    /\ SpecLife
    /\ WF_vars(ListenerClose)
    /\ WF_vars(Close(1))
    /\ WF_vars(DrainDone \/ DrainTimeout)

\* The request handler on a loaded table: a document whose records have an
\* upper-case key that replaces an earlier record of the same host, an
\* empty protocol and a key with a port, and requests on every route with
\* Host headers that are empty, differ in case, carry a port, or are a
\* prefix of a key.
StrW8 == <<119, 58, 56>>

DocReq ==
    JsonDoc(TRUE, << Rec(StrId, StrX, StrHttp), Rec(StrIdUpper, StrY, StrHttp),
                     Rec(StrW, StrX, <<>>), Rec(StrW8, StrY, StrHttp) >>)

\* "", "ID:80", "id", "w", "w:8", "i"
ReqHosts == { <<>>, <<73, 68, 58, 56, 48>>, StrId, StrW, StrW8, <<105>> }

ReqRequests ==
    { Request(Slash, <<>>, h) : h \in ReqHosts }
    \cup { Request(p, <<>>, h) : p \in { PathCheck, PathHealth, PathPac }, h \in { <<>>, StrId } }

InitReq ==
    /\ clientEnd = [c \in Conns |-> "open"]
    /\ InitConns({ [c \in Conns |-> <<>>] })
    /\ InitStart
    /\ InitTable({ DocReq, DocRefused })

NextReq ==
    \/ StartUp
    \/ loadMappingsFromFile
    \/ \E r \in Readers : handleRequest(r, ReqRequests)

SpecReq == InitReq /\ [][NextReq]_vars

\* The composition of the redirect target: stored targets with base paths
\* "", "/" and "/b/", request paths with single, double and triple slashes,
\* with and without a query.
DocPaths ==
    JsonDoc(TRUE, << Rec(StrId, StrY, StrHttp),
                     Rec(StrX, StrY \o Slash, StrHttp),
                     Rec(StrW, StrY \o <<47, 98, 47>>, StrHttp) >>)

\* "/", "/a", "//a", "/a/", "/a//b", "/a///b"
ComposePaths ==
    { Slash, <<47, 97>>, <<47, 47, 97>>, <<47, 97, 47>>, <<47, 97, 47, 47, 98>>,
      <<47, 97, 47, 47, 47, 98>> }

\* "q=1"
StrQuery == <<113, 61, 49>>

ComposeRequests ==
    { Request(p, <<>>, h) : p \in ComposePaths, h \in { StrId, StrX, StrW } }
    \cup { Request(<<47, 97>>, StrQuery, StrW) }

InitCompose ==
    /\ clientEnd = [c \in Conns |-> "open"]
    /\ InitConns({ [c \in Conns |-> <<>>] })
    /\ InitStart
    /\ InitTable({ DocPaths, DocRefused })

NextCompose ==
    \/ StartUp
    \/ loadMappingsFromFile
    \/ \E r \in Readers : handleRedirect(r, ComposeRequests)

SpecCompose == InitCompose /\ [][NextCompose]_vars

\* The request of the handshake on every header: after the greeting 05 01 00
\* the client sends a whole request (no truncation) with any version byte,
\* command, reserved byte and address type, then two payload bytes, and
\* does not reset the connection.
AddrFields(atyp) ==
    CASE atyp = 1 -> { IPv4Addr }
      [] atyp = 3 -> DomainAddrs
      [] atyp = 4 -> { IPv6Addr }
      [] OTHER -> { <<>>, IPv4Addr }

ConnectStreams ==
    UNION { { GreetingOf(<<0>>) \o <<ver, cmd, rsv, atyp>> \o addr \o <<0, 80>> \o <<71, 69>> :
                ver \in { 4, 5 }, cmd \in 0..3, rsv \in { 0, 7 }, addr \in AddrFields(atyp) } :
            atyp \in 0..5 }

InitConnect ==
    /\ clientEnd \in { f \in [Conns -> { "open", "eof" }] : \A c \in Conns : c # 1 => f[c] = "open" }
    /\ InitConns({ f \in [Conns -> ConnectStreams \cup { <<>> }] :
                     \A c \in Conns : (c = 1) = (f[c] # <<>>) })
    /\ InitListener
    /\ InitTable({ DocOne })

SpecConnect == InitConnect /\ [][NextSniff]_vars

\* Two handshakes side by side: each client sends a whole valid exchange,
\* any offered methods, any destination and either port, and stays connected.
PairStreams ==
    { GreetingOf(m) \o <<5, 1, 0, a[1]>> \o a[2] \o port :
        m \in MethodLists, a \in GoodAddrs, port \in { <<0, 80>>, <<1, 187>> } }

InitPair ==
    /\ clientEnd = [c \in Conns |-> "open"]
    /\ InitConns([Conns -> PairStreams])
    /\ InitListener
    /\ InitTable({ DocOne })

NextPair == \E c \in Conns : AcceptConn(c) \/ Peek(c) \/ Handshake(c)

SpecPair == InitPair /\ [][NextPair]_vars

\* Reload signals over the whole run: SIGUSR1 at any time after
\* signal.Notify, the file rewritten between loads, the redirect requests
\* of one connection taking the read lock, and the termination signal with
\* the drain of a server that holds no connection.
ReloadDocs == { DocOne, DocTwo, DocNoRecords }

InitReload ==
    /\ clientEnd = [c \in Conns |-> "open"]
    /\ InitConns({ [c \in Conns |-> <<>>] })
    /\ InitStart
    /\ InitTable(ReloadDocs \cup { DocRefused })

NextReload ==
    \/ StartUp
    \/ Signal
    \/ ListenerClose
    \/ Close(1)
    \/ DrainDone
    \/ SigUsr1
    \/ \E d \in ReloadDocs : EditFile(d)
    \/ loadMappingsFromFile
    \/ handleRedirect(1, TableRequests)

SpecReload == InitReload /\ [][NextReload]_vars

\* The Go scheduler runs the reload goroutine whenever it can take a step,
\* and a request handler that holds mapMutex read-locked up to its
\* RUnlock, so a writer waiting for mapMutex gets it.  Signals, file
\* edits, arriving requests and the main goroutine owe nothing.
FairReload ==
    /\ SpecReload
    /\ WF_vars(loadMappingsFromFile)
    /\ WF_vars(ReqLookup(1) \/ ReqRUnlock(1))

\* A stalled connection next to a live one: the client of connection 2
\* sends nothing, one byte or a greeting short of a method and then stays
\* silent with the connection open; the client of connection 1 sends a
\* whole HTTP request or a whole SOCKS5 exchange.
StallStreams == { <<>>, <<5>>, <<5, 2, 0>> }

LiveStreams ==
    { <<71, 69>>,
      GreetingOf(<<0>>) \o RequestOf(1, 3, <<0>>) \o <<71>>,
      GreetingOf(<<>>) \o RequestOf(1, 1, IPv4Addr),
      GreetingOf(<<2, 1>>) \o RequestOf(1, 4, IPv6Addr) \o <<71>> }

InitStall ==
    /\ clientEnd = [c \in Conns |-> "open"]
    /\ InitConns({ f \in [Conns -> StallStreams \cup LiveStreams] :
                     /\ f[1] \in LiveStreams
                     /\ \A c \in Conns : c # 1 => f[c] \in StallStreams })
    /\ InitListener
    /\ InitTable({ DocOne })

NextStall ==
    \/ \E c \in Conns : AcceptConn(c) \/ Peek(c) \/ Handshake(c) \/ Submit(c) \/ HttpRead(c)
    \/ Accept

SpecStall == InitStall /\ [][NextStall]_vars

\* The Go scheduler runs the accept loop, every connection's task and
\* Serve's loop when they can take a step.  Clients owe nothing.
FairStall ==
    /\ SpecStall
    /\ \A c \in Conns :
          /\ WF_vars(AcceptConn(c))
          /\ WF_vars(Peek(c) \/ Handshake(c) \/ Submit(c))
    /\ WF_vars(Accept)

\* The shutdown against connections in flight: each client sends nothing, a
\* plain request or a whole SOCKS5 exchange, and stays open or half-closes.
\* The goroutines run only while the process does: when Start has returned,
\* main returns and every goroutine ends where it is.
ProcessRunning == mainPc # "stopped"

InitDrain ==
    /\ clientEnd \in [Conns -> { "open", "eof" }]
    /\ InitConns([Conns -> SmallStreams])
    /\ InitListener
    /\ InitTable({ DocOne })

NextDrain ==
    \/ Signal
    \/ ListenerClose
    \/ Close(1)
    \/ DrainDone
    \/ \E c \in Conns : ProcessRunning /\ AcceptConn(c)
    \/ \E c \in Conns : ProcessRunning /\ Peek(c)
    \/ \E c \in Conns : ProcessRunning /\ CloseFailed(c)
    \/ \E c \in Conns : ProcessRunning /\ Handshake(c)
    \/ \E c \in Conns : ProcessRunning /\ Submit(c)
    \/ \E c \in Conns : ProcessRunning /\ SubmitWoken(c)
    \/ ProcessRunning /\ Accept
    \/ ProcessRunning /\ AcceptWoken
    \/ ProcessRunning /\ AcceptError
    \/ ProcessRunning /\ AcceptRetry

SpecDrain == InitDrain /\ [][NextDrain]_vars

\* While the process runs its goroutines are scheduled: the accept loop,
\* whose Accept on the closed real listener returns at once, and each task
\* at its select.  Nothing is assumed of the main goroutine or the clients.
FairDrain ==
    /\ SpecDrain
    /\ WF_vars(ProcessRunning /\ ((~realOpen /\ AcceptError) \/ AcceptRetry))
    /\ \A c \in Conns : WF_vars(ProcessRunning /\ (Submit(c) \/ SubmitWoken(c)))

\* ----------------------------------------------------------------- claims
HandshakePcs ==
    { "greeting", "methods", "choice", "request", "ipv4", "domainLen", "domain",
      "ipv6", "port", "reply" }

\* C1: once l.closed is closed, no step of any interleaving makes Accept
\* return a connection (served never grows), and an Accept that returns
\* (entering its select, or resumed from it) returns net.ErrClosed, which
\* ends Serve's loop; also with a submitter offering on conns.
C1_NoAcceptAfterClose ==
    [][ lclosed =>
          /\ served' = served
          /\ (srvPc \in { "accept", "woken" } /\ srvPc' # srvPc) => srvPc' = "returned"
      ]_vars

\* A submitter was parked on conns when close fired, and the Accept entered
\* afterwards returned the error without taking its connection.
C1_Witness ==
    /\ lclosed
    /\ srvPc = "returned"
    /\ served = <<>>
    /\ \E c \in Conns : pc[c] = "woken" /\ hsErr[c] = "nil" /\ ~connClosed[c]

\* C2: a task that enters the submit select with l.closed already closed
\* closes its connection in that very step and returns; the connection is
\* never among those Accept returned.
C2_LateSubmitClosed ==
    /\ [](\A c \in Conns : lateSubmit[c] =>
              connClosed[c] /\ pc[c] = "done" /\ c \notin ServedSet)
    /\ [][ \A c \in Conns :
             (pc[c] = "submit" /\ lclosed /\ pc'[c] # "submit") => lateSubmit'[c] ]_vars

\* A connection whose handshake succeeded reached the select after the close
\* and was closed by its own task.
C2_Witness ==
    \E c \in Conns : lateSubmit[c] /\ hsErr[c] = "nil" /\ connClosed[c]

\* C3: whatever the interleaving of the Close calls, close(l.closed) runs at
\* most once and never on a closed channel, every call that has returned
\* left the listener closed, and the listener never reopens.
C3_CloseOnce ==
    /\ [](/\ closeCount <= 1
          /\ \A k \in Closers : closerPc[k] # "panic"
          /\ \A k \in Closers : closerPc[k] = "returned" => lclosed /\ closeCount = 1)
    /\ [][ lclosed => lclosed' ]_vars

\* Every Close call has returned and the channel was closed once.
C3_Witness ==
    /\ \A k \in Closers : closerPc[k] = "returned"
    /\ closeCount = 1
    /\ closeMu = 0

\* bytes of the stream the server side has taken, by handshake or HTTP read
Consumed(c) == Len(stream[c]) - Len(Avail(c))

\* C4: on a well-formed greeting (n methods) and CONNECT request over a
\* connection the client does not reset, the handshake never fails and is
\* never short of bytes; when it has returned, the server has written
\* 05 00 and the 10-byte reply and nothing else, exactly
\* 2 + n + 4 + addressLength + 2 bytes were consumed by it, and what the
\* HTTP server reads is exactly the payload after the port.
C4_HandshakeConsumesExactly ==
    \A c \in Conns : \A m \in MethodLists : \A a \in GoodAddrs : \A p \in Payloads :
        (/\ stream[c] = GreetingOf(m) \o RequestOf(1, a[1], a[2]) \o p
         /\ clientEnd[c] # "reset")
        => /\ hsErr[c] \in { "none", "nil" }
           /\ pc[c] # "closing"
           /\ pc[c] \in HandshakePcs => ENABLED Handshake(c)
           /\ hsErr[c] = "nil" =>
                 /\ out[c] = <<5, 0, 5, 0, 0, 1, 0, 0, 0, 0, 0, 0>>
                 /\ Consumed(c) - Len(httpGot[c]) = 2 + Len(m) + 4 + Len(a[2]) + 2
                 /\ httpGot[c] \o Avail(c) = p
           /\ c \in ServedSet => hsErr[c] = "nil"

\* A domain-name CONNECT with two offered methods was unwrapped and the HTTP
\* server has read the two payload bytes.
C4_Witness ==
    \E c \in Conns :
        /\ stream[c] = <<5, 2, 2, 1, 5, 1, 0, 3, 2, 105, 100, 0, 80, 71, 69>>
        /\ hsErr[c] = "nil"
        /\ c \in ServedSet
        /\ httpGot[c] = <<71, 69>>

\* C5: on a stream whose first byte is not 0x05 the dispatcher consumes and
\* writes nothing and runs no handshake: what the HTTP server has read
\* followed by what PeekConn can still deliver is the client's stream,
\* byte for byte, the peeked byte first.
C5_PlainStreamUntouched ==
    \A c \in Conns :
        (stream[c] # <<>> /\ stream[c][1] # 5)
        => /\ httpGot[c] \o rbuf[c] \o sock[c] = stream[c]
           /\ out[c] = <<>>
           /\ hsErr[c] = "none"
           /\ pc[c] \notin HandshakePcs
           /\ c \notin ServedSet => httpGot[c] = <<>>

\* The HTTP server has read a whole three-byte plain stream.
C5_Witness ==
    \E c \in Conns : stream[c] = <<71, 69, 84>> /\ httpGot[c] = stream[c] /\ c \in ServedSet

\* C6 as stated: a connection that opens with version byte 0x04 is closed
\* by the dispatcher and nothing of it reaches the HTTP layer.
C6_Socks4NeverDelivered ==
    \A c \in Conns :
        (stream[c] # <<>> /\ stream[c][1] = 4) => c \notin ServedSet /\ httpGot[c] = <<>>

\* C6 amended: the handshake runs only on a peeked 0x05, so its version
\* check never fails; a connection that opens with 0x04 is classified as
\* plain HTTP: no handshake, nothing written, never closed for its content
\* (only the closed case of the submit select closes it), and what Accept
\* hands to the HTTP layer reads from the 0x04 on.
C6_Socks4TreatedAsHttp ==
    /\ \A c \in Conns : hsErr[c] # "unsupported version"
    /\ \A c \in Conns :
          (stream[c] # <<>> /\ stream[c][1] = 4)
          => /\ hsErr[c] = "none"
             /\ out[c] = <<>>
             /\ pc[c] \notin HandshakePcs \cup { "closing" }
             /\ connClosed[c] => lclosed
             /\ c \in ServedSet => httpGot[c] \o Avail(c) = stream[c]

\* The HTTP layer has read the 0x04 greeting of a delivered connection.
C6_Witness ==
    \E c \in Conns :
        /\ stream[c] = <<4, 1, 0>>
        /\ c \in ServedSet
        /\ httpGot[c] = <<4, 1, 0>>
        /\ ~connClosed[c]

\* C7: a connection whose handshake returned an error goes to conn.Close()
\* and nowhere else: it is never offered on conns, never returned by Accept,
\* and closed when its task is done; Accept returns only connections that
\* were classified as plain or whose handshake returned nil.
C7_FailedHandshakeNotForwarded ==
    \A c \in Conns :
        /\ hsErr[c] \notin { "none", "nil" }
              => /\ pc[c] \in { "closing", "done" }
                 /\ pc[c] = "done" => connClosed[c]
                 /\ c \notin ServedSet
        /\ c \in ServedSet
              => \/ hsErr[c] = "nil"
                 \/ hsErr[c] = "none" /\ stream[c] # <<>> /\ stream[c][1] # 5

\* Handshakes failed on an unsupported command, on an unsupported address
\* type and on a write, and the first of them was closed.
C7_Witness ==
    \E c \in Conns :
        /\ hsErr[c] \in { "unsupported command", "unsupported address type",
                          "write reply", "read error" }
        /\ connClosed[c]
        /\ pc[c] = "done"
        /\ out[c] = <<5, 0>>

\* C8: when the 1-byte peek fails (the client closed or reset before sending
\* a byte) the task closes the connection and returns; the connection is
\* never offered on conns nor returned by Accept, and nothing is written.
C8_PeekErrorDropped ==
    \A c \in Conns :
        (stream[c] = <<>> /\ clientEnd[c] # "open")
        => /\ pc[c] \in { "idle", "peek", "closing", "done" }
           /\ pc[c] = "done" => connClosed[c]
           /\ c \notin ServedSet
           /\ out[c] = <<>>
           /\ hsErr[c] = "none"

\* The peek hit end-of-stream and the task closed the connection.
C8_Witness ==
    \E c \in Conns :
        stream[c] = <<>> /\ clientEnd[c] = "eof" /\ pc[c] = "done" /\ connClosed[c]

UsableAt(data) == { i \in 1..Len(data) : Usable(data[i]) }

LastFor(data, k) ==
    CHOOSE i \in UsableAt(data) :
        /\ ToLower(data[i].shortUrl) = k
        /\ \A j \in UsableAt(data) : ToLower(data[j].shortUrl) = k => j <= i

TableOf(data) ==
    [k \in { ToLower(data[i].shortUrl) : i \in UsableAt(data) } |->
        FullURL(data[LastFor(data, k)])]

\* the empty table of NewProxyServer and the table of every loadable document
CompleteTables ==
    { EmptyMap } \cup
    { TableOf(d.data) : d \in { e \in Docs : DocError(e) = "nil" /\ UsableAt(e.data) # {} } }

\* C10: the live table is at every moment the complete table of one
\* document, so every lookup, made under the read lock, is answered from a
\* complete table: the one before a reload's swap or the one after it.  A
\* load fills a private map; no step changes the contents of the map object
\* that is live, and the pointer is swapped only under the write lock, with
\* no reader inside, to a map that is already complete.
C10_LookupSeesWholeTable ==
    /\ [](/\ heap[shortLinkMap] \in CompleteTables
          /\ \A r \in Readers : rPc[r] = "runlock" =>
                \E T \in CompleteTables : rSeen[r] = MapGet(T, rHost[r])
          /\ \A t \in LoadTasks : loadPc[t] = "range" => newMap[t] # shortLinkMap
          /\ mapWriter => mapReaders = {})
    /\ [][ /\ shortLinkMap' = shortLinkMap => heap'[shortLinkMap] = heap[shortLinkMap]
           /\ shortLinkMap' # shortLinkMap =>
                 /\ mapWriter /\ mapReaders = {}
                 /\ heap'[shortLinkMap'] = heap[shortLinkMap']
                 /\ heap[shortLinkMap'] \in CompleteTables
       ]_vars

\* A request holds the answer of the second table ("id" of the record "ID")
\* while a third load is filling its private map with one record of two.
C10_Witness ==
    /\ loadPc["reload"] = "range"
    /\ idx["reload"] = 2
    /\ Len(apiResp["reload"]) = 2
    /\ clock = 3
    /\ \E r \in Readers :
          /\ rPc[r] = "runlock"
          /\ rHost[r] = StrId
          /\ rSeen[r] = [found |-> TRUE, targetURL |-> StrHttp \o <<58, 47, 47>> \o StrY]

\* C11: every table-derived value of one response comes from one table
\* version.  A table version is the map object a load published, stamped
\* with that load's time; a /check or /health response holds the mapping
\* total and last-load time of the version its first read-locked section
\* saw and the sample mappings of the version its second one saw.
C11_OneTablePerResponse ==
    \A r \in Readers :
        (rPc[r] = "done" /\ rReq[r].path \in { PathCheck, PathHealth }) =>
            /\ rLoc[r].lastSync = rLoc[r].sizeFrom
            /\ rLoc[r].samplesFrom = rLoc[r].sizeFrom
            /\ Cardinality(rLoc[r].samples) = Min(SampleLimit, rLoc[r].mapSize)

\* a document a load accepts: readable, parsable, success = true and at
\* least one usable record
Loadable(d) == DocError(d) = "nil" /\ UsableAt(d.data) # {}

\* a step in which loadMappingsFromFile returns
LoadReturns ==
    \/ \E t \in LoadTasks : loadPc[t] # "idle" /\ loadPc'[t] = "idle"
    \/ clock' # clock /\ loadPc' = loadPc

\* C12: a load of a document that is unreadable, unparsable, has
\* success = false or yields no usable record returns an error and changes
\* neither the live table nor the last-load time, and a reload leaves the
\* lifecycle state as it is; the table and the time change only in a load
\* of a loadable document, which returns nil.
C12_FailedReloadKeepsTable ==
    /\ [](\A t \in LoadTasks : loadPc[t] # "idle" /\ ~Loadable(doc) => loadPc[t] = "range")
    /\ [][ /\ LoadReturns => (loadErr' = "nil" <=> Loadable(doc))
           /\ (shortLinkMap' # shortLinkMap \/ lastSyncTime' # lastSyncTime
                  \/ heap'[shortLinkMap'] # heap[shortLinkMap]) =>
                 /\ Loadable(doc)
                 /\ \E t \in LoadTasks : loadPc[t] \in { "swap", "stamp" }
           /\ (LoadReturns /\ phase = "serving") => (phase' = phase /\ mainPc' = mainPc)
       ]_vars

\* A reload of a document with no usable record has failed: the table of
\* the first load is live, with its time.
C12_Witness ==
    /\ loadErr = "no valid records"
    /\ NoLoad
    /\ doc = DocNoRecords
    /\ clock = 2
    /\ lastSyncTime = 1
    /\ shortLinkMap = 1
    /\ heap[shortLinkMap] = TableOf(DocOne.data)
    /\ phase = "serving"

\* C13: until the initial load has returned nil nothing listens and
\* nothing is served: the real listener is not bound, neither the accept
\* loop nor server.Serve runs, no connection is accepted or handed over and
\* no request is handled; a failed initial load ends the process in the
\* load step; and whatever is served is served from a loaded table.
C13_NothingBeforeInitialLoad ==
    /\ phase # "serving" =>
          /\ ~realOpen
          /\ loopPc = "unstarted"
          /\ srvPc = "unstarted"
          /\ served = <<>>
          /\ \A c \in Conns : pc[c] = "idle"
          /\ \A r \in Readers : rPc[r] = "idle"
    /\ phase = "aborted" => mainPc \in { "load", "stopped" } /\ exit \in { "running", "fatal" }
    /\ phase = "serving" =>
          /\ lastSyncTime >= 1
          /\ heap[shortLinkMap] # EmptyMap
          /\ exit # "fatal"

\* The initial load succeeded, a connection went through the accept loop
\* and the virtual listener, and its request was answered with a redirect.
C13_Witness ==
    /\ phase = "serving"
    /\ \E r \in Readers \cap ServedSet :
          /\ rPc[r] = "done"
          /\ rResp[r].status = StatusFound

\* C14: the virtual listener is closed, and ChannelListener.Close is
\* called, only with the real listener already closed, during or after
\* server.Shutdown; the real listener is closed in the step after the
\* signal, with the virtual one still open.
C14_RealListenerClosedFirst ==
    /\ []((lclosed \/ \E k \in Closers : closerPc[k] # "idle") =>
             (~realOpen /\ mainPc \in { "shutdown", "stopped" }))
    /\ [](mainPc = "signalled" => (realOpen /\ ~lclosed))
    /\ [][(realOpen /\ ~realOpen') => (mainPc = "signalled" /\ mainPc' = "shutdown")]_vars

\* Shutdown has closed the virtual listener after the real one, with a
\* connection already handed to the HTTP server.
C14_Witness ==
    /\ lclosed
    /\ ~realOpen
    /\ mainPc = "shutdown"
    /\ closerPc[1] = "returned"
    /\ served # <<>>

\* C15: after the signal Start always returns: cleanly when no request is
\* in progress when Shutdown polls, with the deadline's error when one still
\* is.  Only the main goroutine is assumed to run: requests may never
\* finish, handshakes may wait for bytes for ever.
C15_SignalLeadsToStopped ==
    /\ (mainPc = "signalled") ~> (mainPc = "stopped")
    /\ [][(mainPc = "shutdown" /\ mainPc' = "stopped") =>
             /\ exit' \in { "clean", "error" }
             /\ exit' = "clean" <=> ActiveConns = {}
       ]_vars

\* Start returned the deadline's error with a request unfinished and
\* another connection's task still waiting in the SOCKS5 handshake.
C15_Witness ==
    /\ mainPc = "stopped"
    /\ exit = "error"
    /\ \E r \in Readers : rPc[r] \notin { "idle", "done" }
    /\ \E c \in Conns : pc[c] = "greeting"

\* C16: the table a load publishes is the table of the document alone,
\* whatever table was live; so a reload of the document the live table was
\* loaded from publishes a table with the same keys and targets.  The
\* last-load time moves forward in the stamp step of a load and nowhere
\* else.
C16_ReloadSameDocumentSameTable ==
    [][ /\ shortLinkMap' # shortLinkMap =>
              /\ heap'[shortLinkMap'] = TableOf(doc.data)
              /\ liveDoc = doc => heap'[shortLinkMap'] = heap[shortLinkMap]
        /\ lastSyncTime' # lastSyncTime =>
              ((\E t \in LoadTasks : loadPc[t] = "stamp") /\ lastSyncTime' > lastSyncTime)
      ]_vars

\* The reload of the unchanged two-record document the live table was
\* loaded from holds the write lock, about to swap in a second map object
\* with the same keys and targets.
C16_Witness ==
    /\ loadPc["reload"] = "swap"
    /\ clock = 2
    /\ lastSyncTime = 1
    /\ liveDoc = DocTwo
    /\ doc = DocTwo
    /\ newMap["reload"] # shortLinkMap
    /\ heap[newMap["reload"]] = heap[shortLinkMap]
    /\ Cardinality(DOMAIN heap[newMap["reload"]]) = 2

\* the routes that bypass the counter
UncountedPaths == { PathCheck, PathHealth, PathPac }

\* the requests that execute ps.requestCount++ in this step
Counting == { r \in Readers : rPc[r] = "countWrite" /\ rPc'[r] # "countWrite" }

\* C17: the counter grows in every step by the number of requests that
\* complete their increment in it, so it never decreases and no increment
\* is lost; it equals the number of increments executed.  Only requests
\* off /check, /health and /proxy.pac reach the increment, and each of
\* them gets its response, whatever its status, only after it.
C17_CounterCountsRequests ==
    /\ [](/\ requestCount = handled
          /\ \A r \in Readers :
                /\ rPc[r] \in { "count", "countWrite", "rlock", "lookup", "runlock",
                                 "respond" } =>
                      rReq[r].path \notin UncountedPaths
                /\ rPc[r] \in { "checkRLock", "checkSize", "checkCount", "checkRLock2",
                                 "checkSamples" } => rReq[r].path \in UncountedPaths)
    /\ [][ /\ requestCount' = requestCount + Cardinality(Counting)
           /\ \A r \in Readers :
                 LET answered == rPc[r] # "done" /\ rPc'[r] = "done" IN
                 /\ (answered /\ rReq'[r].path \in UncountedPaths) =>
                       (r \notin Counting /\ rPc[r] \in { "idle", "checkSamples" })
                 /\ (answered /\ rReq'[r].path \notin UncountedPaths) =>
                       /\ rPc[r] \in { "countWrite", "respond" }
                       /\ rLoc[r].tmp < requestCount'
                 /\ (rPc[r] = "count" /\ rPc'[r] # "count") => rPc'[r] = "countWrite"
                 /\ (rPc'[r] = "rlock" /\ rPc[r] # "rlock") => r \in Counting
       ]_vars

\* Two requests in flight together were answered 400 and 302, and the
\* counter stands at 2.
C17_Witness ==
    /\ requestCount = 2
    /\ \E r, q \in Readers :
          /\ rPc[r] = "done" /\ rResp[r].status = StatusBadRequest
          /\ rPc[q] = "done" /\ rResp[q].status = StatusFound

\* the status handleRequest owes a request off the three routes, on table T
StatusFor(req, T) ==
    LET k == ToLower(BeforeColon(req.host)) IN
    IF req.host = <<>> THEN StatusBadRequest
    ELSE IF k \notin DOMAIN T THEN StatusNotFound
    ELSE IF ~UrlParse(T[k]).ok THEN StatusInternalServerError
    ELSE StatusFound

\* C18: a request off /check, /health and /proxy.pac is answered 400 when
\* its Host header is empty, else 404 when the lower-cased host without its
\* port is no key of the table, else 500 when url.Parse rejects the stored
\* target, else 302 with a Location; no other status occurs.
C18_StatusOrder ==
    \A r \in Readers :
        (rPc[r] = "done" /\ rReq[r].path \notin UncountedPaths) =>
            /\ rResp[r].status = StatusFor(rReq[r], heap[shortLinkMap])
            /\ rResp[r].status \in { StatusBadRequest, StatusNotFound,
                                     StatusInternalServerError, StatusFound }
            /\ rResp[r].status = StatusFound <=> rResp[r].location # <<>>

\* The host "w" is a key whose stored target "://x" has no scheme: 500.
C18_Witness ==
    \E r \in Readers :
        /\ rPc[r] = "done"
        /\ rReq[r].host = StrW
        /\ rResp[r].status = StatusInternalServerError

\* header h names host S: it equals S up to letter case, with or without a
\* ":port" suffix of digits
NamesHost(h, S) ==
    \/ ToLower(h) = ToLower(S)
    \/ \E n \in 1..Len(h) :
          /\ h[n] = 58
          /\ ToLower(Take(h, n - 1)) = ToLower(S)
          /\ \A j \in (n + 1)..Len(h) : IsDigit(h[j])

\* C19 as stated: for every loaded record with a non-empty shortUrl S, a
\* request whose Host names S, in any letter case and with or without a
\* port, resolves to that record's target, and a host that equals no key
\* after lower-casing gets 404 with the lower-cased host in the body.
C19_EveryRecordResolves ==
    \A r \in Readers :
        (rPc[r] = "done" /\ rReq[r].path \notin UncountedPaths /\ rReq[r].host # <<>>) =>
            /\ \A i \in UsableAt(liveDoc.data) :
                  NamesHost(rReq[r].host, liveDoc.data[i].shortUrl) =>
                      rSeen[r] = [found |-> TRUE, targetURL |-> FullURL(liveDoc.data[i])]
            /\ ToLower(BeforeColon(rReq[r].host)) \notin DOMAIN heap[shortLinkMap] =>
                  /\ rResp[r].status = StatusNotFound
                  /\ rResp[r].body = NotFoundBody(ToLower(BeforeColon(rReq[r].host)))

\* C19 amended: the Host header is cut at its first ':' and lower-cased, and
\* that string is looked up as it is.  A record whose shortUrl holds no ':'
\* and which no later usable record of the same lower-cased host replaces
\* is resolved by every Host that names it; a key that holds a ':' is never
\* matched; a host whose cut, lower-cased form is no key gets 404 with that
\* form in the body.
C19_LookupByCutLoweredHost ==
    \A r \in Readers :
        (rPc[r] = "done" /\ rReq[r].path \notin UncountedPaths /\ rReq[r].host # <<>>) =>
            LET data == liveDoc.data
                k == ToLower(BeforeColon(rReq[r].host))
            IN  /\ \A i \in UsableAt(data) :
                      ( /\ NamesHost(rReq[r].host, data[i].shortUrl)
                        /\ LastColon(data[i].shortUrl, Len(data[i].shortUrl)) = 0
                        /\ i = LastFor(data, ToLower(data[i].shortUrl)) ) =>
                          rSeen[r] = [found |-> TRUE, targetURL |-> FullURL(data[i])]
                /\ rSeen[r].found =>
                      (k \in DOMAIN heap[shortLinkMap] /\ LastColon(k, Len(k)) = 0)
                /\ k \notin DOMAIN heap[shortLinkMap] =>
                      /\ rResp[r].status = StatusNotFound
                      /\ rResp[r].body = NotFoundBody(k)

\* "ID:80" resolved to the target of the record "ID", and "i", a prefix of
\* that key, was answered 404.
C19_Witness ==
    \E r, q \in Readers :
        /\ rPc[r] = "done"
        /\ rReq[r].host = <<73, 68, 58, 56, 48>>
        /\ rResp[r].status = StatusFound
        /\ rSeen[r].targetURL = FullURL(Rec(StrIdUpper, StrY, StrHttp))
        /\ rPc[q] = "done"
        /\ rReq[q].host = <<105>>
        /\ rResp[q].status = StatusNotFound

\* s with every run of '/' made a single '/'
RECURSIVE Squeeze(_)
Squeeze(s) ==
    IF Len(s) < 2 THEN s
    ELSE IF s[1] = 47 /\ s[2] = 47 THEN Squeeze(Tail(s))
    ELSE <<Head(s)>> \o Squeeze(Tail(s))

NoDoubleSlash(s) == \A i \in 1..(Len(s) - 1) : ~(s[i] = 47 /\ s[i + 1] = 47)

\* C20: the Location of a redirect is the stored target with, as its path,
\* the target's base path and the request path joined by one slash and
\* holding no two consecutive slashes, and with the request's query.
C20_NoDuplicateSlashes ==
    \A r \in Readers :
        (rPc[r] = "done" /\ rResp[r].status = StatusFound) =>
            LET target == UrlParse(rSeen[r].targetURL)
                joined == Squeeze(target.path \o Slash \o rReq[r].path)
            IN  /\ NoDoubleSlash(joined)
                /\ rResp[r].location =
                      UrlString([target EXCEPT !.path = joined, !.rawQuery = rReq[r].query])

\* C21: every entry of the live table was built from a record of the loaded
\* document that carries a scheme and a longUrl, both non-empty, and is
\* scheme://longUrl of that record.
C21_EntriesHaveSchemeAndLongUrl ==
    LET T == heap[shortLinkMap] IN
    \A k \in DOMAIN T :
        \E i \in DOMAIN liveDoc.data :
            LET record == liveDoc.data[i] IN
            /\ record.protocol # <<>>
            /\ record.longUrl # <<>>
            /\ k = ToLower(record.shortUrl)
            /\ T[k] = record.protocol \o <<58, 47, 47>> \o record.longUrl

\* the termination signal was taken and the real listener closed
ShutdownInitiated == ~realOpen /\ mainPc \in { "shutdown", "stopped" }

\* C22: an error of the real listener's Accept after shutdown was initiated
\* ends the accept loop, it is never logged and followed by another Accept;
\* an Accept error with no shutdown in progress is logged, the loop goes on
\* and the process keeps running.
C22_ShutdownErrorEndsLoop ==
    [][ (loopPc = "accept" /\ loopPc' \in { "logged", "exited" }) =>
            IF ShutdownInitiated
               THEN loopPc' = "exited"
               ELSE loopPc' = "logged" /\ exit' = exit /\ mainPc' = mainPc ]_vars

\* the place of a step in handleSocks5Handshake's order
HsRank(p) ==
    CASE p = "greeting" -> 1
      [] p = "methods" -> 2
      [] p = "choice" -> 3
      [] p = "request" -> 4
      [] p \in { "ipv4", "domainLen", "ipv6" } -> 5
      [] p = "domain" -> 6
      [] p = "port" -> 7
      [] p = "reply" -> 8
      [] OTHER -> 9

\* bytes of the greeting of stream s: the 2-byte header and its n methods
GreetingLen(s) == 2 + s[2]

\* bytes of the address field of the request of stream s
AddrLen(s) ==
    LET atyp == s[GreetingLen(s) + 4] IN
    CASE atyp = 1 -> 4
      [] atyp = 3 -> 1 + s[GreetingLen(s) + 5]
      [] atyp = 4 -> 16
      [] OTHER -> 0

\* C23: the handshake's reads and writes come in one forward order, no step
\* twice: 05 00 is written only once the greeting header and its n methods
\* were read; nothing of the request is read before 05 00 was written; the
\* 10-byte reply is written only once the address and the port were read;
\* after the first failing read or write nothing more is read from or
\* written to the connection.
C23_HandshakeOrder ==
    [][ \A c \in Conns :
          LET s == stream[c] IN
          /\ (pc[c] \in HandshakePcs /\ pc'[c] # pc[c]) =>
                 /\ HsRank(pc'[c]) > HsRank(pc[c])
                 /\ pc'[c] \in HandshakePcs \cup { "submit", "closing" }
          /\ out'[c] # out[c] =>
                 \/ /\ out[c] = <<>>
                    /\ out'[c] = <<5, 0>>
                    /\ Consumed(c) = GreetingLen(s)
                 \/ /\ out[c] = <<5, 0>>
                    /\ out'[c] = <<5, 0, 5, 0, 0, 1, 0, 0, 0, 0, 0, 0>>
                    /\ Consumed(c) = GreetingLen(s) + 4 + AddrLen(s) + 2
          /\ (pc[c] \in HandshakePcs /\ Len(s) >= 2 /\ Consumed(c)' > GreetingLen(s)) =>
                 Len(out[c]) >= 2
          /\ hsErr[c] \notin { "none", "nil" } =>
                 /\ out'[c] = out[c]
                 /\ rbuf'[c] = rbuf[c]
                 /\ sock'[c] = sock[c]
                 /\ hsErr'[c] = hsErr[c]
      ]_vars

\* A handshake with two offered methods and an IPv6 destination returned nil;
\* another stream would have failed at its request.
C23_Witness ==
    \E c \in Conns :
        /\ stream[c] = GreetingOf(<<2, 1>>) \o RequestOf(1, 4, IPv6Addr) \o <<71, 69>>
        /\ hsErr[c] = "nil"
        /\ pc[c] = "submit"
        /\ Len(out[c]) = 12

\* C24: on a whole request the handshake fails exactly when the command
\* is not 1 or the address type is not 1, 3 or 4, and then it has read the
\* 4-byte header and nothing of the address or port; otherwise it reads 4,
\* 1 + L or 16 address bytes and the 2 port bytes, whatever the version and
\* reserved bytes of the request are.
C24_RequestFailsExactlyOnCmdOrAtyp ==
    \A c \in Conns :
        (stream[c] \in ConnectStreams /\ hsErr[c] # "none") =>
            LET s == stream[c]
                cmd == s[GreetingLen(s) + 2]
                atyp == s[GreetingLen(s) + 4]
            IN  /\ (hsErr[c] # "nil") = (cmd # 1 \/ atyp \notin { 1, 3, 4 })
                /\ hsErr[c] # "nil" =>
                       /\ Consumed(c) = GreetingLen(s) + 4
                       /\ out[c] = <<5, 0>>
                       /\ hsErr[c] = IF cmd # 1 THEN "unsupported command"
                                                ELSE "unsupported address type"
                /\ hsErr[c] = "nil" =>
                       /\ Consumed(c) - Len(httpGot[c]) = GreetingLen(s) + 4 + AddrLen(s) + 2
                       /\ httpGot[c] \o Avail(c) = <<71, 69>>

\* A CONNECT to a domain name of length 0, its request carrying version
\* byte 4 and reserved byte 7, was accepted.
C24_Witness ==
    \E c \in Conns :
        /\ stream[c] = GreetingOf(<<0>>) \o <<4, 1, 7, 3>> \o <<0>> \o <<0, 80>> \o <<71, 69>>
        /\ hsErr[c] = "nil"

\* s is a prefix of t
IsPrefix(s, t) == Len(s) <= Len(t) /\ s = Take(t, Len(s))

\* C25: what the server writes during a valid handshake does not depend on
\* the client's bytes: of any two handshakes, whatever methods, address
\* type, address and port each client sent, one's output so far is a prefix
\* of the other's, and two handshakes that succeeded wrote the same 12
\* bytes, 05 00 and the fixed reply.
C25_WrittenBytesIndependent ==
    \A c1, c2 \in Conns :
        /\ IsPrefix(out[c1], out[c2]) \/ IsPrefix(out[c2], out[c1])
        /\ (hsErr[c1] = "nil" /\ hsErr[c2] = "nil") =>
               /\ out[c1] = out[c2]
               /\ out[c1] = <<5, 0, 5, 0, 0, 1, 0, 0, 0, 0, 0, 0>>

\* Two handshakes succeeded: one offered no method and asked for an IPv4
\* address on port 80, the other offered methods 2 and 1 and asked for a
\* domain name on port 443.
C25_Witness ==
    /\ stream[1] = GreetingOf(<<>>) \o <<5, 1, 0, 1>> \o IPv4Addr \o <<0, 80>>
    /\ stream[2] = GreetingOf(<<2, 1>>) \o <<5, 1, 0, 3>> \o <<2, 105, 100>> \o <<1, 187>>
    /\ hsErr[1] = "nil"
    /\ hsErr[2] = "nil"

\* the calls of loadMappingsFromFile in progress
LoadsInProgress == { t \in LoadTasks : loadPc[t] # "idle" }

\* C26: at no time are two calls of loadMappingsFromFile in progress; the
\* initial load has returned when the reload goroutine runs, and a reload
\* starts only with no other load in progress; the table and the last-load
\* time are written only by a load that holds mapMutex write-locked, with
\* no reader inside.
C26_LoadsSerialized ==
    /\ [](/\ Cardinality(LoadsInProgress) <= 1
          /\ loadPc["reload"] # "idle" =>
                 (loadPc["main"] = "idle" /\ phase = "serving")
          /\ (\E t \in LoadTasks : loadPc[t] \in { "swap", "stamp", "unlock" }) =>
                 (mapWriter /\ mapReaders = {}))
    /\ [][ (shortLinkMap' # shortLinkMap \/ lastSyncTime' # lastSyncTime) =>
              /\ mapWriter /\ mapReaders = {}
              /\ \E t \in LoadTasks : loadPc[t] \in { "swap", "stamp" }
      ]_vars

\* A reload holds the write lock, after the initial load, while a further
\* SIGUSR1 waits in reloadChan and a request waits for its read lock.
C26_Witness ==
    /\ loadPc["reload"] = "stamp"
    /\ loadPc["main"] = "idle"
    /\ clock = 2
    /\ reloadChan = 1
    /\ mapWriter
    /\ \E r \in Readers : rPc[r] = "rlock"

\* the service is Serving or Draining
ServingOrDraining == mainPc \in { "serving", "signalled", "shutdown" }

C28_OwnershipTransfersOnce ==
    /\ [](/\ Cardinality(ServedSet) = Len(served)
          /\ \A c \in Conns :
                /\ ~(c \in ServedSet /\ connClosed[c])
                /\ c \in ServedSet => pc[c] = "done"
                /\ c \notin ServedSet => httpGot[c] = <<>>)
    /\ [][ \A c \in Conns :
              /\ c \in ServedSet =>
                    /\ c \in { served'[i] : i \in 1..Len(served') }
                    /\ pc'[c] = pc[c]
                    /\ out'[c] = out[c]
                    /\ buf'[c] = buf[c]
                    /\ connClosed'[c] = connClosed[c]
                    /\ httpGot[c] \o Avail(c) = httpGot'[c] \o Avail(c)'
              /\ Len(served') <= Len(served) + 1
      ]_vars

\* One connection was delivered after its handshake and read by the HTTP
\* server; the other was closed by its dispatcher task on the closed
\* listener and never delivered.
C28_Witness ==
    \E c, d \in Conns :
        /\ c \in ServedSet /\ hsErr[c] = "nil" /\ httpGot[c] # <<>> /\ ~connClosed[c]
        /\ d \notin ServedSet /\ connClosed[d] /\ pc[d] = "done" /\ lateSubmit[d]

\* the positions at which a connection's task can wait: for the client's
\* bytes in the peek or in a read of the handshake, or for Accept in the
\* submit select
StalledPcs ==
    { "peek", "greeting", "methods", "request", "ipv4", "domainLen", "domain", "ipv6",
      "port", "submit", "parked" }

\* C29: whatever another connection's task waits for, the accept loop can
\* accept the next connection at once, and a connection whose client has
\* sent its whole request is classified, unwrapped and delivered to the
\* HTTP server, while the other connection's task waits forever for its
\* silent client.
C29_ConnectionsIndependent ==
    /\ [](\A c, d \in Conns :
            (c # d /\ pc[c] \in StalledPcs /\ pc[d] = "idle" /\ loopPc = "accept" /\ realOpen)
                => ENABLED AcceptConn(d))
    /\ \A d \in Conns : (stream[d] \in LiveStreams) ~> (d \in ServedSet)
    /\ \A c \in Conns : (stream[c] \in StallStreams) ~> [](pc[c] \in StalledPcs)

\* Connection 1 was unwrapped and delivered while connection 2, accepted
\* before it was, still waits in its handshake for the methods of its
\* greeting.
C29_Witness ==
    /\ pc[2] = "methods"
    /\ stream[2] = <<5, 2, 0>>
    /\ 1 \in ServedSet
    /\ hsErr[1] = "nil"
    /\ httpGot[1] = <<71>>

\* C30: from the moment Start is past its initial load until it returns,
\* the live table holds at least one entry, whatever reloads succeeded or
\* failed in between.
C30_LiveTableNeverEmpty ==
    (mainPc \in { "goReload", "goLoop", "goServe", "serving", "signalled", "shutdown" })
        => DOMAIN heap[shortLinkMap] # {}

\* While the server drains, a reload of a document with no usable record
\* has been rejected after an earlier reload had swapped the table.
C30_Witness ==
    /\ mainPc = "shutdown"
    /\ doc = DocNoRecords
    /\ loadErr = "no valid records"
    /\ clock = 3
    /\ lastSyncTime = 2
    /\ NoLoad
    /\ Cardinality(DOMAIN heap[shortLinkMap]) = 2

\* the errors handleSocks5Handshake returns after it wrote the method
\* selection and before it writes the reply
AfterGreetingErrs ==
    { "read request header", "unsupported command", "unsupported address type",
      "read error" }

\* C31: when handleSocks5Handshake has returned, the server has written 0, 2
\* or 12 bytes to the connection, 12 only if it returned nil; a handshake that
\* failed on the request (unsupported command, unsupported address type, a
\* request cut short) has written the 2-byte method selection and nothing
\* else, and whatever was written is a prefix of 05 00 followed by the
\* success reply.
C31_WrittenZeroTwoOrTwelve ==
    \A c \in Conns :
        hsErr[c] # "none" =>
            /\ Len(out[c]) \in { 0, 2, 12 }
            /\ IsPrefix(out[c], ChoiceBytes \o ReplyBytes)
            /\ Len(out[c]) = 12 => hsErr[c] = "nil"
            /\ hsErr[c] \in AfterGreetingErrs => out[c] = ChoiceBytes

\* A CONNECT request whose address was cut short by the client's
\* half-close: the handshake returned the read error after it had written
\* the method selection only.
C31_Witness ==
    \E c \in Conns :
        /\ hsErr[c] = "read error"
        /\ clientEnd[c] = "eof"
        /\ Len(stream[c]) > GreetingLen(stream[c]) + 4
        /\ stream[c][GreetingLen(stream[c]) + 2] = 1
        /\ out[c] = ChoiceBytes
        /\ sock[c] = <<>>

\* a task at its submit select: about to enter it, parked in it, or resumed
\* from it by the close
SubmitPcs == { "submit", "parked", "woken" }

\* C32 as stated: once l.closed is closed the accept loop always eventually
\* returns, and every task at its submit select then or later always
\* eventually closes its connection and returns.
C32_ClosedLeadsToReturn ==
    /\ lclosed ~> (loopPc = "exited")
    /\ \A c \in Conns :
          (lclosed /\ pc[c] \in SubmitPcs) ~> (pc[c] = "done" /\ connClosed[c])

\* C32: once l.closed is closed, while the process runs no goroutine waits
\* for ever: the accept loop returns and every task at its submit select
\* then or later closes its connection and returns, unless Start returns
\* and the process ends first.
C32_ClosedLeadsToReturnOrExit ==
    /\ lclosed ~> (loopPc = "exited" \/ ~ProcessRunning)
    /\ \A c \in Conns :
          (lclosed /\ pc[c] \in SubmitPcs)
              ~> ((pc[c] = "done" /\ connClosed[c]) \/ ~ProcessRunning)

\* Before Shutdown returned, the accept loop has returned, one task that was
\* parked in its select has closed its connection and another that came to
\* the select after the close has closed its own.
C32_Witness ==
    /\ mainPc = "shutdown"
    /\ lclosed
    /\ loopPc = "exited"
    /\ \E c1, c2 \in Conns :
          /\ pc[c1] = "done" /\ connClosed[c1] /\ ~lateSubmit[c1] /\ hsErr[c1] \in { "none", "nil" }
          /\ stream[c1] # <<>>
          /\ pc[c2] = "done" /\ connClosed[c2] /\ lateSubmit[c2]
          /\ c1 \notin ServedSet /\ c2 \notin ServedSet

====
